---- MODULE Spec2Model ----
(***************************************************************************)
(* A model of the LFG bot of src/src/index.js: the in-memory TTL maps      *)
(* (lfgSessions, lfgJoinedUsers, webhookChannels, guildGameFilters), the   *)
(* aggregate counters, the rate limiter, the SQLite mirror, the idle       *)
(* timers and the handlers that act on them.                               *)
(*                                                                         *)
(* A handler is an async function: it runs without interruption up to an   *)
(* await of a network call (interaction.deferReply, voiceChannel.edit,     *)
(* channel.delete, ...), where other handlers may run.  Each such segment   *)
(* is one action; a suspended handler is a record of ops.  `await          *)
(* saveData()` does not suspend: better-sqlite3 is synchronous, so the     *)
(* await resolves in the microtask queue before any other event runs.      *)
(*                                                                         *)
(* Time is Date.now() in milliseconds.  The clock advances by Tick over    *)
(* quiet intervals and never past the deadline of a pending timer.         *)
(***************************************************************************)
EXTENDS Integers, Sequences, FiniteSets, TLC

(***************************************************************************)
(* Bounds of the model.                                                    *)
(***************************************************************************)
NUsers == 3
NIds == 1
MaxCap == 2
MaxTicks == 3
MaxOps == 2
MaxCreates == 2
MaxEvents == 4
MaxRateTicks == 2

(***************************************************************************)
(* Program constants.                                                      *)
(***************************************************************************)
SESSION_EXPIRY == 24 * 60 * 60 * 1000
CACHE_TTL == 60 * 60 * 1000
WEBHOOK_TTL == 30 * 60 * 1000
FILTER_TTL == 60 * 60 * 1000
limit == 5
interval == 60000
GRACE == 5 * 60 * 1000
SWEEP_PERIOD == 60000
MIN_PLAYERS == 1
MAX_PLAYERS == 10

Users == 1..NUsers
Guilds == {"A", "B", "C"}
Games == {"Valorant", "Counter-Strike 2"}
\* Math.floor(1000 + Math.random() * 9000): the ids the model draws
SessionIds == 1000..(1000 + NIds - 1)
ChanIds == 1..MaxCreates
NoChan == 0
\* the values of the option `joueurs` the model draws (min_value 1, max_value 10)
Caps == MIN_PLAYERS..(IF MaxCap < MAX_PLAYERS THEN MaxCap ELSE MAX_PLAYERS)
DefaultDescription == "Pas de description"
Descriptions == {"d1"}
\* the values of the option `twitch`: absent, two well-formed links and a malformed one
TwitchInputs == {"null", "https://twitch.tv/abc", "https://twitch.tv/abc/", "twitch.tv/abc"}

Range(seq) == {seq[i] : i \in 1..Len(seq)}
Min(a, b) == IF a < b THEN a ELSE b

VARIABLES
    now,              \* Date.now()
    lastSweep,        \* when the periodic cleanup last fired
    ticks,            \* how many times the clock advanced
    events,           \* how many interactions and voice state updates arrived
    lfgSessions,      \* Map sessionId -> {value, expiresAt}
    sessOrder,        \* insertion order of the keys of lfgSessions
    lfgJoinedUsers,   \* Map sessionId -> {value: [userId], expiresAt}
    webhookChannels,  \* Map guildId -> {value: channelId, expiresAt}
    guildGameFilters, \* Map guildId -> {value: [game], expiresAt}
    lfgStats,         \* {totalSessions, totalPlayers}
    rateLimiter,      \* userId -> [timestamp]
    db,               \* the SQLite tables
    timers,           \* pending setTimeout callbacks
    chans,            \* the voice channels that exist (guild.channels.cache)
    voice,            \* channel -> members in it
    made,             \* how many channel sets were created
    orphans,          \* channel sets left behind by a failed creation
    announced,        \* cross-server announcements delivered
    ops,              \* suspended handlers
    reply,            \* the last reply a handler sent
    hist              \* history, for stating the properties

memVars == <<lfgSessions, sessOrder, lfgJoinedUsers, webhookChannels, guildGameFilters, lfgStats>>
worldVars == <<chans, voice, made, orphans, announced>>
clockVars == <<now, lastSweep>>
budgetVars == <<ticks, events>>
vars == <<now, lastSweep, ticks, events, lfgSessions, sessOrder, lfgJoinedUsers, webhookChannels,
          guildGameFilters, lfgStats, rateLimiter, db, timers, chans, voice, made,
          orphans, announced, ops, reply, hist>>

(***************************************************************************)
(* JavaScript Map as a function on the keys present.                       *)
(***************************************************************************)
EmptyMap == [k \in {} |-> 0]
MapSet(map, key, entry) == (key :> entry) @@ map
MapDelete(map, key) == [k \in (DOMAIN map) \ {key} |-> map[k]]
OrderSet(order, key) == IF key \in Range(order) THEN order ELSE Append(order, key)
OrderDelete(order, key) == SelectSeq(order, LAMBDA k : k # key)

\* setWithTTL(map, key, value, ttl)
\* a put that keeps the expiry of an entry it replaces
setWithTTLOnce(map, key, value, ttl) ==
    MapSet(map, key, [value |-> value,
                      expiresAt |-> IF key \in DOMAIN map THEN map[key].expiresAt
                                    ELSE now + ttl])
setWithTTL(map, key, value, ttl) == MapSet(map, key, [value |-> value, expiresAt |-> now + ttl])

\* getGuildGameFilter(guildId): the cached filter, else the row of the database
FilterRow(guildId) == IF guildId \in DOMAIN db.filters THEN db.filters[guildId] ELSE <<>>
getGuildGameFilter(guildId) ==
    IF guildId \in DOMAIN guildGameFilters THEN guildGameFilters[guildId].value ELSE FilterRow(guildId)
\* the cache after getGuildGameFilter(guildId) ran on cache `filters`
FilterCacheAfter(filters, guildId) ==
    IF guildId \in DOMAIN filters THEN filters
    ELSE setWithTTL(filters, guildId, FilterRow(guildId), FILTER_TTL)

\* a variant of isGameAllowedForGuild that ignores the filter
isGameAllowedAlways(guildId, game) == TRUE

\* isGameAllowedForGuild(guildId, game)
isGameAllowedForGuild(guildId, game) ==
    LET filter == getGuildGameFilter(guildId)
    IN Len(filter) = 0 \/ game \in Range(filter)

\* TWITCH_REGEX.test(twitchRaw.trim()) on the inputs the model draws
TwitchMatches(raw) == raw \in {"https://twitch.tv/abc", "https://twitch.tv/abc/"}
\* twitchRaw.trim().replace(/\/$/, '')
TwitchUrl(raw) == IF raw = "null" THEN "null" ELSE "https://twitch.tv/abc"

(***************************************************************************)
(* The database (better-sqlite3, foreign_keys = ON).                       *)
(***************************************************************************)
\* a row of lfgSessions: the table has no twitchUrl column, and timeoutId is dropped
SessionRow(s) ==
    [userId |-> s.userId, guildId |-> s.guildId, game |-> s.game, players |-> s.players,
     description |-> s.description, date |-> s.date, chan |-> s.chan]
\* { ...s, timeoutId: null } in loadData
RowSession(r) ==
    [userId |-> r.userId, guildId |-> r.guildId, game |-> r.game, players |-> r.players,
     description |-> r.description, twitchUrl |-> "undefined", date |-> r.date,
     chan |-> r.chan, timeoutId |-> 0]

\* the transaction of saveData on database d with the maps given
SaveTx(d, sessions, order, joined, stats, webhooks, filters) ==
    LET rows == [k \in DOMAIN sessions |-> SessionRow(sessions[k].value)] @@ d.sessions
        \* INSERT OR REPLACE deletes the old row: it moves to the end, and ON DELETE
        \* CASCADE deletes the lfgJoinedUsers rows of the session
        rowOrder == SelectSeq(d.sessOrder, LAMBDA k : k \notin DOMAIN sessions) \o order
        users == [k \in DOMAIN rows |->
                    IF k \in DOMAIN joined THEN joined[k].value
                    ELSE IF k \in DOMAIN sessions THEN <<>>
                    ELSE d.users[k]]
    IN [sessions |-> rows, sessOrder |-> rowOrder, users |-> users,
        stats |-> [totalSessions |-> stats.totalSessions, totalPlayers |-> stats.totalPlayers],
        hasStats |-> TRUE,
        webhooks |-> [g \in DOMAIN webhooks |-> webhooks[g].value] @@ d.webhooks,
        filters |-> [g \in DOMAIN filters |-> filters[g].value] @@ d.filters]

\* saveData(): the transaction, rolled back when a user row has no session row
saveData(d, sessions, order, joined, stats, webhooks, filters) ==
    IF \E k \in DOMAIN joined : k \notin DOMAIN sessions /\ k \notin DOMAIN d.sessions
                                 /\ Len(joined[k].value) > 0
    THEN d
    ELSE SaveTx(d, sessions, order, joined, stats, webhooks, filters)

\* DELETE FROM lfgSessions WHERE id = ? and DELETE FROM lfgJoinedUsers WHERE sessionId = ?
DbDeleteSession(d, sid) ==
    [d EXCEPT !.sessions = MapDelete(@, sid), !.sessOrder = OrderDelete(@, sid),
              !.users = MapDelete(@, sid)]

EmptyDb ==
    [sessions |-> EmptyMap, sessOrder |-> <<>>, users |-> EmptyMap,
     stats |-> [totalSessions |-> 0, totalPlayers |-> 0], hasStats |-> FALSE,
     webhooks |-> EmptyMap, filters |-> EmptyMap]

(***************************************************************************)
(* Rate limiter.                                                           *)
(***************************************************************************)
\* a variant of Pruned that keeps a timestamp exactly one interval old
PrunedInclusive(userId) == SelectSeq(rateLimiter[userId], LAMBDA ts : now - ts <= interval)

\* rateLimiter[userId].filter(ts => now - ts < interval)
Pruned(userId) == SelectSeq(rateLimiter[userId], LAMBDA ts : now - ts < interval)
\* checkRateLimit(userId) returns true
Admitted(userId) == Len(Pruned(userId)) < limit
\* a limiter that records the refused attempts too
checkRateLimitAll(userId) ==
    rateLimiter' = [rateLimiter EXCEPT ![userId] = Append(Pruned(userId), now)]
\* checkRateLimit(userId)
checkRateLimit(userId) ==
    rateLimiter' = [rateLimiter EXCEPT ![userId] =
                      IF Admitted(userId) THEN Append(Pruned(userId), now) ELSE Pruned(userId)]

\* the InteractionCreate handler up to the dispatch: the interaction is admitted
Dispatched(userId) == Admitted(userId) /\ checkRateLimit(userId)

(***************************************************************************)
(* Suspended handlers.                                                     *)
(***************************************************************************)
NullSession ==
    [userId |-> 0, guildId |-> "", game |-> "", players |-> 0, description |-> "",
     twitchUrl |-> "null", date |-> 0, chan |-> NoChan, timeoutId |-> 0]
NullOp ==
    [kind |-> "", pc |-> "", user |-> 0, guild |-> "", sid |-> 0, chan |-> NoChan,
     game |-> "", players |-> 0, desc |-> "null", twitch |-> "null", target |-> 0,
     mode |-> "", alias |-> FALSE, obj |-> NullSession, done |-> {}, now0 |-> 0,
     cause |-> ""]

RemoveAt(seq, i) == [j \in 1..(Len(seq) - 1) |-> IF j < i THEN seq[j] ELSE seq[j + 1]]

\* The session object a suspended handleModifyLFGCommand holds in sessionData.value is
\* the object of the map entry (alias) until that entry is replaced or deleted; from
\* then on nothing mutates it any more and it keeps the value it had.
Detach(opSeq, sid, sessions) ==
    [j \in 1..Len(opSeq) |->
        IF opSeq[j].kind = "modify" /\ opSeq[j].sid = sid /\ opSeq[j].alias
           /\ sid \in DOMAIN sessions
        THEN [opSeq[j] EXCEPT !.alias = FALSE, !.obj = sessions[sid].value]
        ELSE opSeq[j]]

\* a deleted key leaves the part of the Map a suspended iteration has passed
Unvisit(opSeq, sid) ==
    [j \in 1..Len(opSeq) |-> [opSeq[j] EXCEPT !.done = @ \ {sid}]]

(***************************************************************************)
(* Timers.                                                                 *)
(***************************************************************************)
MinFree(S) == CHOOSE h \in 1..(Cardinality(S) + 1) : h \notin S /\ \A k \in 1..(h - 1) : k \in S
\* the timer handles something still refers to
HandlesInUse(sessions, tms, opSeq) ==
    {t.h : t \in tms}
    \cup {sessions[k].value.timeoutId : k \in DOMAIN sessions}
    \cup {opSeq[j].obj.timeoutId : j \in 1..Len(opSeq)}
\* clearTimeout(handle)
clearTimeout(tms, handle) == {t \in tms : t.h # handle}

\* resetTimeout(sessionId, guild) on the map `sessions` and the pending timers `tms`
resetTimeout(sessions, tms, sid) ==
    IF sid \notin DOMAIN sessions THEN [sessions |-> sessions, timers |-> tms]
    ELSE LET session == sessions[sid].value
             cleared == clearTimeout(tms, session.timeoutId)
             h == MinFree(HandlesInUse(MapDelete(sessions, sid), cleared, ops))
         IN [sessions |-> setWithTTL(sessions, sid, [session EXCEPT !.timeoutId = h], CACHE_TTL),
             timers |-> cleared \cup {[h |-> h, sid |-> sid, chan |-> session.chan,
                                       deadline |-> now + GRACE]}]

Say(userId, msg) == reply' = [to |-> userId, msg |-> msg, list |-> <<>>]

\* member.permissions.has(ManageChannels): the last user is an ordinary member
HasManage(userId, guildId) == userId # NUsers


(***************************************************************************)
(* deleteLFGSession(sessionId, guild).                                     *)
(***************************************************************************)
\* a deletion that takes the session and its capacity off the counters
DeleteCommittedCounted(sid) ==
    /\ lfgSessions' = MapDelete(lfgSessions, sid)
    /\ sessOrder' = OrderDelete(sessOrder, sid)
    /\ lfgJoinedUsers' = MapDelete(lfgJoinedUsers, sid)
    /\ lfgStats' = IF sid \in DOMAIN lfgSessions
                   THEN [totalSessions |-> lfgStats.totalSessions - 1,
                         totalPlayers |-> lfgStats.totalPlayers
                                          - lfgSessions[sid].value.players]
                   ELSE lfgStats
    /\ db' = saveData(DbDeleteSession(db, sid), lfgSessions', sessOrder', lfgJoinedUsers',
                      lfgStats', webhookChannels, guildGameFilters)
    /\ UNCHANGED <<webhookChannels, guildGameFilters>>

\* lfgSessions.delete, lfgJoinedUsers.delete, the two DELETEs and saveData
DeleteCommitted(sid) ==
    /\ lfgSessions' = MapDelete(lfgSessions, sid)
    /\ sessOrder' = OrderDelete(sessOrder, sid)
    /\ lfgJoinedUsers' = MapDelete(lfgJoinedUsers, sid)
    /\ db' = saveData(DbDeleteSession(db, sid), lfgSessions', sessOrder', lfgJoinedUsers',
                      lfgStats, webhookChannels, guildGameFilters)
    /\ UNCHANGED <<webhookChannels, guildGameFilters, lfgStats>>

\* The call up to its first await: nothing when the session is absent; else the timer
\* the entry names is cleared, and the handler suspends deleting the channels.  With no
\* channel left to delete it runs through.  `rest` are the other suspended handlers.
deleteLFGSession(sid, tms, rest, cause) ==
    IF sid \notin DOMAIN lfgSessions
    THEN /\ timers' = tms
         /\ ops' = rest
         /\ UNCHANGED <<memVars, db, hist>>
    ELSE LET session == lfgSessions[sid].value
         IN /\ timers' = clearTimeout(tms, session.timeoutId)
            /\ IF session.chan \in chans
               THEN /\ ops' = Append(rest, [NullOp EXCEPT !.kind = "delete", !.pc = "voice",
                                              !.sid = sid, !.chan = session.chan,
                                              !.cause = cause])
                    /\ UNCHANGED <<memVars, db, hist>>
               ELSE /\ DeleteCommitted(sid)
                    /\ ops' = Unvisit(Detach(rest, sid, lfgSessions), sid)
                    /\ hist' = [hist EXCEPT !.enrolled[sid] = {},
                                            !.removed[session.chan] = @ + 1]

\* safeDeleteChannel of the voice channel returned
DeleteVoice(i) ==
    /\ ops[i].kind = "delete" /\ ops[i].pc = "voice"
    /\ chans' = chans \ {ops[i].chan}
    /\ voice' = [voice EXCEPT ![ops[i].chan] = {}]
    /\ ops' = [ops EXCEPT ![i].pc = "rest"]
    /\ UNCHANGED <<clockVars, budgetVars, memVars, rateLimiter, db, timers, made, orphans, announced, reply, hist>>

\* the other channels are deleted: the session leaves the maps and the database
DeleteCommit(i) ==
    /\ ops[i].kind = "delete" /\ ops[i].pc = "rest"
    /\ DeleteCommitted(ops[i].sid)
    /\ ops' = Unvisit(Detach(RemoveAt(ops, i), ops[i].sid, lfgSessions), ops[i].sid)
    /\ hist' = [hist EXCEPT !.enrolled[ops[i].sid] = {},
                            !.removed[ops[i].chan] = @ + 1]
    /\ UNCHANGED <<clockVars, budgetVars, rateLimiter, timers, worldVars, reply>>

\* a variant of TimerFire that deletes without looking at the voice channel
TimerFireBlind(t) ==
    /\ t \in timers
    /\ t.deadline <= now
    /\ Len(ops) < MaxOps
    /\ deleteLFGSession(t.sid, timers \ {t}, ops, "idle")
    /\ UNCHANGED <<clockVars, budgetVars, rateLimiter, worldVars, reply>>

\* the callback of the timer resetTimeout set
TimerFire(t) ==
    /\ t \in timers
    /\ t.deadline <= now
    /\ IF t.chan \notin chans \/ voice[t.chan] = {}
       THEN /\ Len(ops) < MaxOps
            /\ deleteLFGSession(t.sid, timers \ {t}, ops, "idle")
       ELSE /\ timers' = timers \ {t}
            /\ UNCHANGED <<memVars, db, ops, hist>>
    /\ UNCHANGED <<clockVars, budgetVars, rateLimiter, worldVars, reply>>

(***************************************************************************)
(* Events.VoiceStateUpdate.                                                *)
(***************************************************************************)
\* Array.from(lfgSessions.entries()).find(...): the first session, in the order of the
\* Map, whose voice channel is the old or the new channel
FirstSession(from, to) ==
    LET hits == SelectSeq(sessOrder, LAMBDA k : lfgSessions[k].value.chan \in {from, to})
    IN IF Len(hits) = 0 THEN 0 ELSE hits[1]
CurrentChannel(u) == IF \E c \in chans : u \in voice[c] THEN CHOOSE c \in chans : u \in voice[c] ELSE NoChan

\* user u moves from the channel it is in to channel `to` (NoChan: none)
VoiceStateUpdate(u, to) ==
    LET from == CurrentChannel(u)
        sid == FirstSession(from, to)
        r == resetTimeout(lfgSessions, timers, sid)
    IN /\ to \in chans \cup {NoChan}
       /\ to # from
       /\ voice' = [c \in DOMAIN voice |->
                      IF c = to THEN voice[c] \cup {u} ELSE voice[c] \ {u}]
       /\ lfgSessions' = r.sessions
       /\ timers' = r.timers
       /\ hist' = [hist EXCEPT !.lastOcc = [c \in DOMAIN @ |-> IF c \in {from, to} THEN now ELSE @[c]]]
       /\ UNCHANGED <<clockVars, ticks, sessOrder, lfgJoinedUsers, webhookChannels, guildGameFilters,
                      lfgStats, rateLimiter, db, chans, made, orphans, announced, ops, reply>>


(***************************************************************************)
(* handleLFGCommand: /lfg.                                                 *)
(***************************************************************************)
\* up to interaction.deferReply: the permission, the Twitch link and the game filter
handleLFGCommand(u, g, game, players, desc, twitchRaw, sid) ==
    /\ UNCHANGED <<clockVars, ticks, lfgSessions, sessOrder, lfgJoinedUsers, webhookChannels, lfgStats,
                   db, timers, worldVars, hist>>
    /\ IF ~HasManage(u, g)
       THEN Say(u, "NoPermission") /\ UNCHANGED <<guildGameFilters, ops>>
       ELSE IF twitchRaw # "null" /\ ~TwitchMatches(twitchRaw)
       THEN Say(u, "TwitchInvalid") /\ UNCHANGED <<guildGameFilters, ops>>
       ELSE IF ~isGameAllowedForGuild(g, game)
       THEN /\ guildGameFilters' = FilterCacheAfter(guildGameFilters, g)
            /\ reply' = [to |-> u, msg |-> "GameNotAllowed", list |-> getGuildGameFilter(g)]
            /\ UNCHANGED ops
       ELSE /\ guildGameFilters' = FilterCacheAfter(guildGameFilters, g)
            /\ Len(ops) < MaxOps
            /\ ops' = Append(ops, [NullOp EXCEPT !.kind = "create", !.pc = "resources",
                                     !.user = u, !.guild = g, !.sid = sid, !.game = game,
                                     !.players = players, !.desc = desc,
                                     !.twitch = TwitchUrl(twitchRaw)])
            /\ UNCHANGED reply

\* guild.channels.create (category, text, voice, info) and the messages sent to them;
\* outcome: "ok", "failed" (nothing was created), "leaked" (a later call threw)
CreateResources(i, outcome) ==
    /\ ops[i].kind = "create" /\ ops[i].pc = "resources"
    /\ UNCHANGED <<clockVars, budgetVars, memVars, rateLimiter, db, timers, announced, hist>>
    /\ CASE outcome = "ok" ->
              /\ made < MaxCreates
              /\ made' = made + 1
              /\ chans' = chans \cup {made + 1}
              /\ ops' = [ops EXCEPT ![i].pc = "fanout", ![i].chan = made + 1]
              /\ UNCHANGED <<voice, orphans, reply>>
         [] outcome = "leaked" ->
              /\ made < MaxCreates
              /\ made' = made + 1
              /\ orphans' = orphans \cup {made + 1}
              /\ ops' = RemoveAt(ops, i)
              /\ Say(ops[i].user, "CreateError")
              /\ UNCHANGED <<chans, voice>>
         [] OTHER ->
              /\ ops' = RemoveAt(ops, i)
              /\ Say(ops[i].user, "CreateError")
              /\ UNCHANGED <<chans, voice, made, orphans>>

\* a variant of CreateFanout in which a delivery that fails ends the command
CreateFanoutAbort(i, g, delivered) ==
    /\ ops[i].kind = "create" /\ ops[i].pc = "fanout"
    /\ g \in (DOMAIN webhookChannels) \ ops[i].done
    /\ IF delivered
       THEN /\ ops' = [ops EXCEPT ![i].done = @ \cup {g}]
            /\ announced' = IF g # ops[i].guild /\ isGameAllowedForGuild(g, ops[i].game)
                            THEN announced \cup {<<g, ops[i].sid, ops[i].chan>>}
                            ELSE announced
            /\ UNCHANGED reply
       ELSE /\ ops' = RemoveAt(ops, i)
            /\ Say(ops[i].user, "CreateError")
            /\ UNCHANGED announced
    /\ guildGameFilters' = IF g = ops[i].guild THEN guildGameFilters
                           ELSE FilterCacheAfter(guildGameFilters, g)
    /\ UNCHANGED <<clockVars, budgetVars, lfgSessions, sessOrder, lfgJoinedUsers, webhookChannels, lfgStats,
                   rateLimiter, db, timers, chans, voice, made, orphans, hist>>

\* one turn of `for (const [guildId, webhookData] of webhookChannels)`;
\* delivered: whether createWebhook, send and delete all succeeded
CreateFanout(i, g, delivered) ==
    /\ ops[i].kind = "create" /\ ops[i].pc = "fanout"
    /\ g \in (DOMAIN webhookChannels) \ ops[i].done
    /\ ops' = [ops EXCEPT ![i].done = @ \cup {g}]
    /\ IF g = ops[i].guild
       THEN UNCHANGED <<guildGameFilters, announced>>
       ELSE /\ guildGameFilters' = FilterCacheAfter(guildGameFilters, g)
            /\ announced' = IF isGameAllowedForGuild(g, ops[i].game) /\ delivered
                            THEN announced \cup {<<g, ops[i].sid, ops[i].chan>>}
                            ELSE announced
    /\ UNCHANGED <<clockVars, budgetVars, lfgSessions, sessOrder, lfgJoinedUsers, webhookChannels, lfgStats,
                   rateLimiter, db, timers, chans, voice, made, orphans, reply, hist>>

\* the session is recorded: setWithTTL twice, the counters, saveData, resetTimeout
CreateRecord(i) ==
    LET op == ops[i]
        sessionData == [userId |-> op.user, guildId |-> op.guild, game |-> op.game,
                        players |-> op.players,
                        description |-> IF op.desc = "null" THEN DefaultDescription ELSE op.desc,
                        twitchUrl |-> op.twitch, date |-> now, chan |-> op.chan,
                        timeoutId |-> 0]
        recorded == setWithTTL(lfgSessions, op.sid, sessionData, CACHE_TTL)
        rest == Detach(RemoveAt(ops, i), op.sid, lfgSessions)
        r == IF op.chan \notin chans \/ voice[op.chan] = {}
             THEN resetTimeout(recorded, timers, op.sid)
             ELSE [sessions |-> recorded, timers |-> timers]
    IN /\ op.kind = "create" /\ op.pc = "fanout"
       /\ (DOMAIN webhookChannels) \subseteq op.done
       /\ lfgJoinedUsers' = setWithTTL(lfgJoinedUsers, op.sid, <<op.user>>, CACHE_TTL)
       /\ lfgStats' = [totalSessions |-> lfgStats.totalSessions + 1,
                       totalPlayers |-> lfgStats.totalPlayers + op.players]
       /\ sessOrder' = OrderSet(sessOrder, op.sid)
       /\ db' = saveData(db, recorded, sessOrder', lfgJoinedUsers', lfgStats',
                         webhookChannels, guildGameFilters)
       /\ lfgSessions' = r.sessions
       /\ timers' = r.timers
       /\ ops' = rest
       /\ Say(op.user, "Created")
       /\ hist' = [hist EXCEPT !.enrolled[op.sid] = {op.user}]
       /\ UNCHANGED <<clockVars, budgetVars, webhookChannels, guildGameFilters, rateLimiter, worldVars>>

(***************************************************************************)
(* handleJoinButton.                                                       *)
(***************************************************************************)
\* variants of JoinCheck that the properties must tell from it: full only beyond the
\* capacity, never full, and full only at exactly the capacity
JoinCheckBeyond(joinedUsers, players, u) ==
    IF u \in Range(joinedUsers) THEN "AlreadyJoined"
    ELSE IF Len(joinedUsers) > players THEN "Full"
    ELSE "ok"
JoinCheckNeverFull(joinedUsers, players, u) ==
    IF u \in Range(joinedUsers) THEN "AlreadyJoined" ELSE "ok"
JoinCheckExact(joinedUsers, players, u) ==
    IF u \in Range(joinedUsers) THEN "AlreadyJoined"
    ELSE IF Len(joinedUsers) = players THEN "Full"
    ELSE "ok"

\* joinedUsers.includes(interaction.user.id), then joinedUsers.length >= session.players
JoinCheck(joinedUsers, players, u) ==
    IF u \in Range(joinedUsers) THEN "AlreadyJoined"
    ELSE IF Len(joinedUsers) >= players THEN "Full"
    ELSE "ok"

\* a join that enrols before it tests the capacity, and does not take the enrolment back
handleJoinButtonEager(u, sid) ==
    /\ UNCHANGED <<clockVars, ticks, lfgSessions, sessOrder, webhookChannels, guildGameFilters, lfgStats,
                   timers, worldVars, ops>>
    /\ IF sid \notin DOMAIN lfgSessions
       THEN Say(u, "NotFound") /\ UNCHANGED <<lfgJoinedUsers, db, hist>>
       ELSE LET session == lfgSessions[sid].value
                joinedUsers == IF sid \in DOMAIN lfgJoinedUsers
                               THEN lfgJoinedUsers[sid].value ELSE <<>>
                check == JoinCheck(joinedUsers, session.players, u)
            IN IF check = "AlreadyJoined"
               THEN Say(u, check) /\ UNCHANGED <<lfgJoinedUsers, db, hist>>
               ELSE IF session.chan \notin chans
               THEN Say(u, "NoVoice") /\ UNCHANGED <<lfgJoinedUsers, db, hist>>
               ELSE /\ lfgJoinedUsers' = setWithTTL(lfgJoinedUsers, sid,
                                                    Append(joinedUsers, u), CACHE_TTL)
                    /\ hist' = IF check = "ok"
                               THEN [hist EXCEPT !.enrolled[sid] = @ \cup {u}] ELSE hist
                    /\ db' = saveData(db, lfgSessions, sessOrder, lfgJoinedUsers',
                                      lfgStats, webhookChannels, guildGameFilters)
                    /\ Say(u, IF check = "ok" THEN "Joined" ELSE check)

handleJoinButton(u, sid) ==
    /\ UNCHANGED <<clockVars, ticks, lfgSessions, sessOrder, webhookChannels, guildGameFilters, lfgStats,
                   timers, worldVars, ops>>
    /\ IF sid \notin DOMAIN lfgSessions
       THEN Say(u, "NotFound") /\ UNCHANGED <<lfgJoinedUsers, db, hist>>
       ELSE LET session == lfgSessions[sid].value
                joinedUsers == IF sid \in DOMAIN lfgJoinedUsers
                               THEN lfgJoinedUsers[sid].value ELSE <<>>
                check == JoinCheck(joinedUsers, session.players, u)
            IN IF check # "ok"
               THEN Say(u, check) /\ UNCHANGED <<lfgJoinedUsers, db, hist>>
               ELSE IF session.chan \notin chans
               THEN Say(u, "NoVoice") /\ UNCHANGED <<lfgJoinedUsers, db, hist>>
               ELSE /\ lfgJoinedUsers' = setWithTTL(lfgJoinedUsers, sid,
                                                    Append(joinedUsers, u), CACHE_TTL)
                    /\ hist' = [hist EXCEPT !.enrolled[sid] = @ \cup {u}]
                    /\ IF sid \in DOMAIN db.sessions
                       THEN \* INSERT OR REPLACE INTO lfgJoinedUsers, then saveData
                            /\ db' = saveData(db, lfgSessions, sessOrder, lfgJoinedUsers',
                                              lfgStats, webhookChannels, guildGameFilters)
                            /\ Say(u, "Joined")
                       ELSE \* FOREIGN KEY constraint failed: the catch block replies
                            /\ db' = db
                            /\ Say(u, "JoinError")


(***************************************************************************)
(* handleModifyLFGCommand: /modify_lfg.  newPlayers 0 and newDesc "null"   *)
(* stand for an option left out.                                           *)
(***************************************************************************)
\* up to interaction.deferReply
handleModifyLFGCommand(u, g, sid, newPlayers, newDesc) ==
    /\ UNCHANGED <<clockVars, ticks, memVars, db, timers, worldVars, hist>>
    /\ IF ~HasManage(u, g)
       THEN Say(u, "NoPermission") /\ UNCHANGED ops
       ELSE IF newPlayers = 0 /\ newDesc = "null"
       THEN Say(u, "NoField") /\ UNCHANGED ops
       ELSE IF sid \notin DOMAIN lfgSessions
       THEN Say(u, "NotFound") /\ UNCHANGED ops
       ELSE /\ Len(ops) < MaxOps
            /\ ops' = Append(ops, [NullOp EXCEPT !.kind = "modify", !.pc = "deferred",
                                     !.user = u, !.guild = g, !.sid = sid,
                                     !.players = newPlayers, !.desc = newDesc,
                                     !.alias = TRUE])
            /\ UNCHANGED reply

\* a variant of AdjustedTotal that forgets to add the new capacity
AdjustedTotalDrop(total, oldPlayers, newPlayers) == total - oldPlayers

\* lfgStats.totalPlayers - session.players + newPlayers
AdjustedTotal(total, oldPlayers, newPlayers) == total - oldPlayers + newPlayers

\* from the counter update to setWithTTL, with `session` the copy the handler holds;
\* then the two messages are edited (an await when their channels exist) and saveData runs
ModifyApply(i, session) ==
    LET op == ops[i]
        edited == [session EXCEPT
                     !.players = IF op.players # 0 THEN op.players ELSE @,
                     !.description = IF op.desc # "null" THEN op.desc ELSE @]
        rest == Detach(ops, op.sid, lfgSessions)
    IN /\ lfgStats' = [lfgStats EXCEPT !.totalPlayers =
                         IF op.players # 0
                         THEN AdjustedTotal(@, session.players, op.players) ELSE @]
       /\ lfgSessions' = setWithTTL(lfgSessions, op.sid, edited, CACHE_TTL)
       /\ sessOrder' = OrderSet(sessOrder, op.sid)
       /\ UNCHANGED <<lfgJoinedUsers, webhookChannels, guildGameFilters>>
       /\ IF session.chan \in chans /\ op.guild = session.guildId
          THEN /\ ops' = [rest EXCEPT ![i] = [op EXCEPT !.pc = "save", !.alias = FALSE,
                                                        !.obj = NullSession]]
               /\ UNCHANGED <<db, reply>>
          ELSE /\ ops' = RemoveAt(rest, i)
               /\ db' = saveData(db, lfgSessions', sessOrder', lfgJoinedUsers, lfgStats',
                                 webhookChannels, guildGameFilters)
               /\ Say(op.user, "Modified")

\* const session = { ...sessionData.value }, and voiceChannel.edit when the capacity
\* changes and the guild has the channel
ModifyCopy(i) ==
    LET op == ops[i]
        session == IF op.alias THEN lfgSessions[op.sid].value ELSE op.obj
    IN /\ op.kind = "modify" /\ op.pc = "deferred"
       /\ UNCHANGED <<clockVars, budgetVars, rateLimiter, timers, worldVars, hist>>
       /\ IF op.players # 0 /\ session.chan \in chans /\ op.guild = session.guildId
          THEN /\ ops' = [ops EXCEPT ![i] = [op EXCEPT !.pc = "edit", !.alias = FALSE,
                                                       !.obj = session]]
               /\ UNCHANGED <<memVars, db, reply>>
          ELSE ModifyApply(i, session)

\* voiceChannel.edit returned (ok) or threw
ModifyEdit(i, ok) ==
    /\ ops[i].kind = "modify" /\ ops[i].pc = "edit"
    /\ UNCHANGED <<clockVars, budgetVars, rateLimiter, timers, worldVars, hist>>
    /\ IF ok
       THEN ModifyApply(i, ops[i].obj)
       ELSE /\ ops' = RemoveAt(ops, i)
            /\ Say(ops[i].user, "ModifyError")
            /\ UNCHANGED <<memVars, db>>

\* the messages are edited: saveData and the follow-up
ModifySave(i) ==
    /\ ops[i].kind = "modify" /\ ops[i].pc = "save"
    /\ db' = saveData(db, lfgSessions, sessOrder, lfgJoinedUsers, lfgStats,
                      webhookChannels, guildGameFilters)
    /\ ops' = RemoveAt(ops, i)
    /\ Say(ops[i].user, "Modified")
    /\ UNCHANGED <<clockVars, budgetVars, memVars, rateLimiter, timers, worldVars, hist>>

(***************************************************************************)
(* handleKickMemberCommand and handleBanMemberCommand.                     *)
(***************************************************************************)
\* a variant of handleKickMemberCommand that does not ask who the organizer is
handleKickAnyone(u, g, sid, target, mode) ==
    /\ UNCHANGED <<clockVars, ticks, memVars, db, timers, worldVars, hist>>
    /\ IF sid \notin DOMAIN lfgSessions
       THEN Say(u, "NotFound") /\ UNCHANGED ops
       ELSE LET session == lfgSessions[sid].value
            IN IF ~(session.chan \in chans /\ g = session.guildId
                    /\ target \in voice[session.chan])
               THEN Say(u, "NotInVoice") /\ UNCHANGED ops
               ELSE /\ Len(ops) < MaxOps
                    /\ ops' = Append(ops, [NullOp EXCEPT !.kind = "kick", !.pc = "disconnect",
                                             !.user = u, !.guild = g, !.sid = sid,
                                             !.target = target, !.mode = mode])
                    /\ UNCHANGED reply

\* up to targetMember.voice.disconnect()
handleKickMemberCommand(u, g, sid, target, mode) ==
    /\ UNCHANGED <<clockVars, ticks, memVars, db, timers, worldVars, hist>>
    /\ IF sid \notin DOMAIN lfgSessions
       THEN Say(u, "NotFound") /\ UNCHANGED ops
       ELSE LET session == lfgSessions[sid].value
            IN IF u # session.userId
               THEN Say(u, "NotOrganizer") /\ UNCHANGED ops
               ELSE IF ~(session.chan \in chans /\ g = session.guildId
                         /\ target \in voice[session.chan])
               THEN Say(u, "NotInVoice") /\ UNCHANGED ops
               ELSE /\ Len(ops) < MaxOps
                    /\ ops' = Append(ops, [NullOp EXCEPT !.kind = "kick", !.pc = "disconnect",
                                             !.user = u, !.guild = g, !.sid = sid,
                                             !.target = target, !.mode = mode])
                    /\ UNCHANGED reply

\* jud.value.filter(id => id !== targetMember.id)
Without(joinedUsers, target) == SelectSeq(joinedUsers, LAMBDA id : id # target)

\* disconnect (and guild.members.ban) returned (ok) or threw
KickCommit(i, ok) ==
    LET op == ops[i]
    IN /\ op.kind = "kick" /\ op.pc = "disconnect"
       /\ ops' = RemoveAt(ops, i)
       /\ UNCHANGED <<clockVars, budgetVars, lfgSessions, sessOrder, webhookChannels, guildGameFilters,
                      lfgStats, rateLimiter, timers, worldVars>>
       /\ IF ok
          THEN /\ lfgJoinedUsers' =
                     IF op.sid \in DOMAIN lfgJoinedUsers
                     THEN setWithTTL(lfgJoinedUsers, op.sid,
                                     Without(lfgJoinedUsers[op.sid].value, op.target), CACHE_TTL)
                     ELSE lfgJoinedUsers
               /\ db' = saveData(
                          [db EXCEPT !.users = [k \in DOMAIN @ |->
                                                  IF k = op.sid THEN Without(@[k], op.target) ELSE @[k]]],
                          lfgSessions, sessOrder, lfgJoinedUsers', lfgStats,
                          webhookChannels, guildGameFilters)
               /\ Say(op.user, IF op.mode = "ban" THEN "Banned" ELSE "Kicked")
               /\ hist' = [hist EXCEPT !.enrolled[op.sid] = @ \ {op.target}]
          ELSE /\ Say(op.user, "KickError")
               /\ UNCHANGED <<lfgJoinedUsers, db, hist>>


(***************************************************************************)
(* handleSetLFGChannelCommand and handleConfigCommand.                     *)
(***************************************************************************)
handleSetLFGChannelCommand(u, g, channel) ==
    /\ UNCHANGED <<clockVars, ticks, memVars, db, timers, worldVars, hist>>
    /\ IF ~HasManage(u, g)
       THEN Say(u, "NoPermission") /\ UNCHANGED ops
       ELSE /\ Len(ops) < MaxOps
            /\ ops' = Append(ops, [NullOp EXCEPT !.kind = "setchannel", !.pc = "deferred",
                                     !.user = u, !.guild = g, !.chan = channel])
            /\ UNCHANGED reply

SetChannelCommit(i) ==
    /\ ops[i].kind = "setchannel"
    /\ webhookChannels' = setWithTTL(webhookChannels, ops[i].guild, ops[i].chan, WEBHOOK_TTL)
    /\ db' = saveData(db, lfgSessions, sessOrder, lfgJoinedUsers, lfgStats,
                      webhookChannels', guildGameFilters)
    /\ ops' = RemoveAt(ops, i)
    /\ Say(ops[i].user, "ChannelSet")
    /\ UNCHANGED <<clockVars, budgetVars, lfgSessions, sessOrder, lfgJoinedUsers, guildGameFilters, lfgStats,
                   rateLimiter, timers, worldVars, hist>>

\* member.permissions.has(ManageGuild)
HasManageGuild(userId, guildId) == userId = 1

handleConfigCommand(u, g, action, game) ==
    /\ UNCHANGED <<clockVars, ticks, memVars, db, timers, worldVars, hist>>
    /\ IF ~HasManageGuild(u, g)
       THEN Say(u, "NoPermission") /\ UNCHANGED ops
       ELSE /\ Len(ops) < MaxOps
            /\ ops' = Append(ops, [NullOp EXCEPT !.kind = "config", !.pc = "deferred",
                                     !.user = u, !.guild = g, !.mode = action, !.game = game])
            /\ UNCHANGED reply

\* the filter after the action, or the filter unchanged when the action is refused
ConfigResult(currentFilter, action, game) ==
    CASE action = "add" /\ game \notin Range(currentFilter) -> Append(currentFilter, game)
      [] action = "remove" /\ game \in Range(currentFilter) ->
            SelectSeq(currentFilter, LAMBDA x : x # game)
      [] action = "reset" -> <<>>
      [] OTHER -> currentFilter

ConfigCommit(i) ==
    LET op == ops[i]
        currentFilter == getGuildGameFilter(op.guild)
        loaded == FilterCacheAfter(guildGameFilters, op.guild)
        changes == \/ op.mode = "add" /\ op.game \notin Range(currentFilter)
                   \/ op.mode = "remove" /\ op.game \in Range(currentFilter)
                   \/ op.mode = "reset"
        result == ConfigResult(currentFilter, op.mode, op.game)
    IN /\ op.kind = "config"
       /\ ops' = RemoveAt(ops, i)
       /\ IF changes
          THEN /\ guildGameFilters' = setWithTTL(loaded, op.guild, result, FILTER_TTL)
               /\ db' = [db EXCEPT !.filters = MapSet(@, op.guild, result)]
               /\ reply' = [to |-> op.user, msg |-> "ConfigDone", list |-> result]
          ELSE /\ guildGameFilters' = loaded
               /\ db' = db
               /\ reply' = [to |-> op.user, msg |-> "ConfigSame", list |-> currentFilter]
       /\ UNCHANGED <<clockVars, budgetVars, lfgSessions, sessOrder, lfgJoinedUsers, webhookChannels, lfgStats,
                      rateLimiter, timers, worldVars, hist>>

(***************************************************************************)
(* The periodic cleanup: setInterval(..., 60_000).                         *)
(***************************************************************************)
Expired(entry, t) == entry.expiresAt # 0 /\ t > entry.expiresAt
\* a sweep that lets a session live for a week
TooOldWeek(entry, t) == t - entry.value.date > 7 * SESSION_EXPIRY
TooOld(entry, t) == t - entry.value.date > SESSION_EXPIRY

\* a sweep that deletes the row of every filter it evicts
SweepTailPurge(t) ==
    LET gone == {k \in DOMAIN lfgJoinedUsers : Expired(lfgJoinedUsers[k], t)}
        evicted == {g \in DOMAIN guildGameFilters : Expired(guildGameFilters[g], t)}
    IN /\ lfgJoinedUsers' = [k \in (DOMAIN lfgJoinedUsers) \ gone |-> lfgJoinedUsers[k]]
       /\ db' = [db EXCEPT !.users = [k \in DOMAIN @ |-> IF k \in gone THEN <<>> ELSE @[k]],
                           !.filters = [g \in (DOMAIN @) \ evicted |-> @[g]]]
       /\ webhookChannels' = [g \in {x \in DOMAIN webhookChannels :
                                       ~Expired(webhookChannels[x], t)} |-> webhookChannels[g]]
       /\ guildGameFilters' = [g \in (DOMAIN guildGameFilters) \ evicted |->
                                 guildGameFilters[g]]
       /\ UNCHANGED <<lfgSessions, sessOrder, lfgStats, timers, hist>>

\* the three loops after the sessions: joined users, webhooks, filters
SweepTail(t) ==
    LET gone == {k \in DOMAIN lfgJoinedUsers : Expired(lfgJoinedUsers[k], t)}
    IN /\ lfgJoinedUsers' = [k \in (DOMAIN lfgJoinedUsers) \ gone |-> lfgJoinedUsers[k]]
       /\ db' = [db EXCEPT !.users = [k \in DOMAIN @ |-> IF k \in gone THEN <<>> ELSE @[k]]]
       /\ webhookChannels' = [g \in {x \in DOMAIN webhookChannels :
                                       ~Expired(webhookChannels[x], t)} |-> webhookChannels[g]]
       /\ guildGameFilters' = [g \in {x \in DOMAIN guildGameFilters :
                                        ~Expired(guildGameFilters[x], t)} |-> guildGameFilters[g]]
       /\ UNCHANGED <<lfgSessions, sessOrder, lfgStats, timers, hist>>

\* the loop over lfgSessions, from the entries the iteration has not passed, up to the
\* next await; sw is the record of this run and rest the other suspended handlers
SweepLoop(sw, rest) ==
    LET pending == SelectSeq(sessOrder, LAMBDA k : k \notin sw.done)
        hits == SelectSeq(pending, LAMBDA k : Expired(lfgSessions[k], sw.now0)
                                              \/ TooOld(lfgSessions[k], sw.now0))
    IN IF Len(hits) = 0
       THEN SweepTail(sw.now0) /\ ops' = rest
       ELSE LET sid == hits[1]
                passed == {pending[j] : j \in {x \in 1..Len(pending) :
                                                 \A y \in 1..x : y = x \/ pending[y] # sid}}
                both == Expired(lfgSessions[sid], sw.now0) /\ TooOld(lfgSessions[sid], sw.now0)
                sw2 == [sw EXCEPT !.done = @ \cup passed \cup {sid}, !.sid = sid,
                                  !.pc = IF both THEN "second" ELSE "loop"]
            IN deleteLFGSession(sid, timers, Append(rest, sw2), "sweep")

SweepStart ==
    /\ now >= lastSweep + SWEEP_PERIOD
    /\ Len(ops) + 2 <= MaxOps
    /\ lastSweep' = now
    /\ rateLimiter' = [u \in Users |-> SelectSeq(rateLimiter[u], LAMBDA ts : now - ts < 60000)]
    /\ SweepLoop([NullOp EXCEPT !.kind = "sweep", !.pc = "loop", !.now0 = now], ops)
    /\ UNCHANGED <<now, budgetVars, worldVars, reply>>

\* the deleteLFGSession the loop awaited has returned
SweepResume(i) ==
    /\ ops[i].kind = "sweep"
    /\ \A j \in 1..Len(ops) : ~(ops[j].kind = "delete" /\ ops[j].cause = "sweep")
    /\ IF ops[i].pc = "second" /\ ops[i].sid \in DOMAIN lfgSessions
       THEN deleteLFGSession(ops[i].sid, timers,
                             Append(RemoveAt(ops, i), [ops[i] EXCEPT !.pc = "loop"]), "sweep")
       ELSE SweepLoop(ops[i], RemoveAt(ops, i))
    /\ UNCHANGED <<clockVars, budgetVars, rateLimiter, worldVars, reply>>

(***************************************************************************)
(* The clock.                                                              *)
(***************************************************************************)
SweepOverdue == now > lastSweep + SWEEP_PERIOD

Tick(d) ==
    /\ ticks < MaxTicks
    /\ ops = <<>>
    /\ now < lastSweep + SWEEP_PERIOD
    /\ \A t \in timers : t.deadline >= now + d
    /\ now' = now + d
    /\ ticks' = ticks + 1
    /\ UNCHANGED <<lastSweep, events, memVars, rateLimiter, db, timers, worldVars, ops, reply, hist>>

Init ==
    /\ now = 0 /\ lastSweep = 0 /\ ticks = 0 /\ events = 0
    /\ lfgSessions = EmptyMap /\ sessOrder = <<>> /\ lfgJoinedUsers = EmptyMap
    /\ webhookChannels = EmptyMap /\ guildGameFilters = EmptyMap
    /\ lfgStats = [totalSessions |-> 0, totalPlayers |-> 0]
    /\ rateLimiter = [u \in Users |-> <<>>]
    /\ db = EmptyDb
    /\ timers = {}
    /\ chans = {} /\ voice = [c \in ChanIds |-> {}] /\ made = 0 /\ orphans = {} /\ announced = {}
    /\ ops = <<>>
    /\ reply = [to |-> 0, msg |-> "", list |-> <<>>]
    /\ hist = [enrolled |-> [k \in SessionIds \cup {1000 + NIds} |-> {}], lastOcc |-> [c \in ChanIds |-> -1],
               removed |-> [c \in ChanIds |-> 0], admitted |-> [u \in Users |-> <<>>]]


(***************************************************************************)
(* The event loop.  A continuation that waits only on settled promises     *)
(* (the cleanup after a deleteLFGSession that returned) runs before any    *)
(* other event; the interval callback runs when its period has elapsed.    *)
(***************************************************************************)
SweepRunning ==
    /\ \E i \in 1..Len(ops) : ops[i].kind = "sweep"
    /\ \A j \in 1..Len(ops) : ~(ops[j].kind = "delete" /\ ops[j].cause = "sweep")
Quiet == ~SweepOverdue /\ ~SweepRunning

\* an event arrives: the model takes MaxEvents of them
Arrives == events < MaxEvents /\ events' = events + 1

\* the quiet intervals the clock advances by
Deltas == {SWEEP_PERIOD, GRACE - SWEEP_PERIOD, CACHE_TTL}

(***************************************************************************)
(* Spec: one community, where user 1 holds the permissions and organises,  *)
(* every user joins, and the other users enter and leave the voice rooms.  *)
(* Spec takes every interaction as admitted by checkRateLimit: the limiter *)
(* only refuses interactions, and SpecRate models it.                      *)
(***************************************************************************)
Organizer == 1
Create ==
    /\ Quiet /\ Arrives
    /\ \E players \in Caps, sid \in SessionIds :
          handleLFGCommand(Organizer, "A", "Valorant", players, "null", "null", sid)
    /\ UNCHANGED rateLimiter
Join ==
    /\ Quiet /\ Arrives
    /\ \E u \in Users, sid \in SessionIds : handleJoinButton(u, sid)
    /\ UNCHANGED rateLimiter
Modify ==
    /\ Quiet /\ Arrives
    /\ \E sid \in SessionIds, newPlayers \in Caps :
          handleModifyLFGCommand(Organizer, "A", sid, newPlayers, "null")
    /\ UNCHANGED rateLimiter
Kick ==
    /\ Quiet /\ Arrives
    /\ \E sid \in SessionIds, target \in Users \ {Organizer}, mode \in {"kick", "ban"} :
          handleKickMemberCommand(Organizer, "A", sid, target, mode)
    /\ UNCHANGED rateLimiter
Voice ==
    /\ Quiet /\ Arrives
    /\ \E u \in Users \ {Organizer}, to \in ChanIds \cup {NoChan} : VoiceStateUpdate(u, to)
Timeout == Quiet /\ \E t \in timers : TimerFire(t)
Resources == Quiet /\ \E i \in 1..Len(ops) : CreateResources(i, "ok")
Record == Quiet /\ \E i \in 1..Len(ops) : CreateRecord(i)
Copy == Quiet /\ \E i \in 1..Len(ops) : ModifyCopy(i)
Edit == Quiet /\ \E i \in 1..Len(ops), ok \in BOOLEAN : ModifyEdit(i, ok)
Save == Quiet /\ \E i \in 1..Len(ops) : ModifySave(i)
Disconnect == Quiet /\ \E i \in 1..Len(ops), ok \in BOOLEAN : KickCommit(i, ok)
Teardown == ~SweepRunning /\ \E i \in 1..Len(ops) : DeleteVoice(i)
Forget == ~SweepRunning /\ \E i \in 1..Len(ops) : DeleteCommit(i)
Sweep == ~SweepRunning /\ SweepStart
Resume == \E i \in 1..Len(ops) : SweepResume(i)
\* the clock matters once a session or a timer exists
Advance == (DOMAIN lfgSessions # {} \/ timers # {}) /\ \E d \in Deltas : Tick(d)

Next ==
    \/ Create \/ Join \/ Modify \/ Kick \/ Voice \/ Timeout
    \/ Resources \/ Record \/ Copy \/ Edit \/ Save \/ Disconnect
    \/ Teardown \/ Forget \/ Sweep \/ Resume \/ Advance

Spec == Init /\ [][Next]_vars


(***************************************************************************)
(* SpecFresh: Spec where Math.random() never draws the id of a session     *)
(* that is live or being created.                                          *)
(***************************************************************************)
IdInUse(sid) ==
    \/ sid \in DOMAIN lfgSessions
    \/ \E j \in 1..Len(ops) : ops[j].kind = "create" /\ ops[j].sid = sid
CreateFresh ==
    /\ Quiet /\ Arrives
    /\ \E players \in Caps, sid \in SessionIds :
          /\ ~IdInUse(sid)
          /\ handleLFGCommand(Organizer, "A", "Valorant", players, "null", "null", sid)
    /\ UNCHANGED rateLimiter

NextFresh ==
    \/ CreateFresh \/ Join \/ Modify \/ Kick \/ Voice \/ Timeout
    \/ Resources \/ Record \/ Copy \/ Edit \/ Save \/ Disconnect
    \/ Teardown \/ Forget \/ Sweep \/ Resume \/ Advance

SpecFresh == Init /\ [][NextFresh]_vars

(***************************************************************************)
(* SpecRate: the InteractionCreate handler in front of a command that      *)
(* changes nothing, /stats, with the clock advancing by one millisecond    *)
(* or by one millisecond less than the interval.                           *)
(***************************************************************************)
\* handleStatsCommand: reads the maps and the counters, and replies
handleStatsCommand(u) ==
    /\ Say(u, "Stats")
    /\ UNCHANGED <<clockVars, ticks, memVars, db, timers, worldVars, ops>>

\* the InteractionCreate handler when checkRateLimit returns false
Refused(u) ==
    /\ ~Admitted(u)
    /\ checkRateLimit(u)
    /\ Say(u, "RateLimited")
    /\ UNCHANGED <<clockVars, ticks, memVars, db, timers, worldVars, ops>>

RateUsers == {1, 2}
RateDeltas == {1, interval - 1}
Stats ==
    /\ Quiet
    /\ \E u \in RateUsers :
          \/ /\ Dispatched(u) /\ handleStatsCommand(u)
             /\ hist' = [hist EXCEPT !.admitted[u] = Append(@, now)]
          \/ Refused(u) /\ UNCHANGED hist
    /\ UNCHANGED events
AdvanceRate == ticks < MaxRateTicks /\ \E d \in RateDeltas : Tick(d)

NextRate == Stats \/ Sweep \/ AdvanceRate

SpecRate == Init /\ [][NextRate]_vars

(***************************************************************************)
(* SpecGate: the InteractionCreate handler in front of the join button. A  *)
(* member presses the button of the sessions the organizer creates.        *)
(***************************************************************************)
Press ==
    /\ Quiet
    /\ \E u \in RateUsers \ {Organizer}, sid \in SessionIds :
          \/ Dispatched(u) /\ handleJoinButton(u, sid)
          \/ Refused(u) /\ UNCHANGED hist
    /\ UNCHANGED events

NextGate == CreateFresh \/ Resources \/ Record \/ Press \/ Sweep \/ AdvanceRate

SpecGate == Init /\ [][NextGate]_vars

(***************************************************************************)
(* loadData and the ClientReady handler, after shutdown() saved the maps   *)
(* and the process started again.                                          *)
(***************************************************************************)
\* the maps loadData builds from database d
LoadedSessions(d) ==
    [k \in DOMAIN d.sessions |-> [value |-> RowSession(d.sessions[k]),
                                  expiresAt |-> now + CACHE_TTL]]
LoadedUsers(d) ==
    [k \in {x \in DOMAIN d.users : Len(d.users[x]) > 0} |->
        [value |-> d.users[k], expiresAt |-> now + CACHE_TTL]]
LoadedStats(d) == IF d.hasStats THEN d.stats ELSE [totalSessions |-> 0, totalPlayers |-> 0]
LoadedWebhooks(d) ==
    [g \in DOMAIN d.webhooks |-> [value |-> d.webhooks[g], expiresAt |-> now + WEBHOOK_TTL]]
LoadedFilters(d) ==
    [g \in DOMAIN d.filters |-> [value |-> d.filters[g], expiresAt |-> now + FILTER_TTL]]

\* `for (const [sessionId, data] of lfgSessions)` of the ClientReady handler over the
\* keys `todo`: a session whose voice channel is gone is deleted, and the timer of a
\* session whose voice channel is empty is set
\* a ClientReady loop without `if (!vc.members.size) resetTimeout(sessionId, guild)`
RECURSIVE ReadyLoopLazy(_, _)
ReadyLoopLazy(todo, st) ==
    IF todo = <<>> THEN st
    ELSE LET sid == Head(todo)
             session == st.sessions[sid].value
         IN IF session.chan \notin chans
            THEN LET sessions == MapDelete(st.sessions, sid)
                     order == OrderDelete(st.order, sid)
                     joined == MapDelete(st.joined, sid)
                 IN ReadyLoopLazy(Tail(todo),
                                  [st EXCEPT !.sessions = sessions, !.order = order,
                                             !.joined = joined,
                                             !.db = saveData(DbDeleteSession(st.db, sid),
                                                             sessions, order, joined, st.stats,
                                                             st.webhooks, st.filters)])
            ELSE ReadyLoopLazy(Tail(todo), st)

RECURSIVE ReadyLoop(_, _)
ReadyLoop(todo, st) ==
    IF todo = <<>> THEN st
    ELSE LET sid == Head(todo)
             session == st.sessions[sid].value
         IN IF session.chan \notin chans
            THEN LET sessions == MapDelete(st.sessions, sid)
                     order == OrderDelete(st.order, sid)
                     joined == MapDelete(st.joined, sid)
                 IN ReadyLoop(Tail(todo),
                              [st EXCEPT !.sessions = sessions, !.order = order,
                                         !.joined = joined,
                                         !.db = saveData(DbDeleteSession(st.db, sid), sessions,
                                                         order, joined, st.stats, st.webhooks,
                                                         st.filters)])
            ELSE IF voice[session.chan] = {}
            THEN LET r == resetTimeout(st.sessions, st.timers, sid)
                 IN ReadyLoop(Tail(todo), [st EXCEPT !.sessions = r.sessions,
                                                     !.timers = r.timers])
            ELSE ReadyLoop(Tail(todo), st)

\* SIGTERM: shutdown() saves and exits; the process starts again with empty maps, no
\* timer and no suspended handler, and the ClientReady handler runs
Restart ==
    LET saved == saveData(db, lfgSessions, sessOrder, lfgJoinedUsers, lfgStats,
                          webhookChannels, guildGameFilters)
        st == ReadyLoop(saved.sessOrder,
                        [sessions |-> LoadedSessions(saved), order |-> saved.sessOrder,
                         joined |-> LoadedUsers(saved), stats |-> LoadedStats(saved),
                         webhooks |-> LoadedWebhooks(saved), filters |-> LoadedFilters(saved),
                         db |-> saved, timers |-> {}])
    IN /\ lfgSessions' = st.sessions
       /\ sessOrder' = st.order
       /\ lfgJoinedUsers' = st.joined
       /\ lfgStats' = st.stats
       /\ webhookChannels' = st.webhooks
       /\ guildGameFilters' = st.filters
       /\ db' = st.db
       /\ timers' = st.timers
       /\ rateLimiter' = [u \in Users |-> <<>>]
       /\ ops' = <<>>
       /\ lastSweep' = now
       /\ UNCHANGED <<now, ticks, worldVars, reply, hist>>

(***************************************************************************)
(* SpecRestart: sessions with and without a Twitch link are created and    *)
(* joined, users enter and leave the voice rooms, and the process restarts.*)
(***************************************************************************)
CreateLinked ==
    /\ Quiet /\ Arrives
    /\ \E players \in Caps, sid \in SessionIds, twitchRaw \in {"null", "https://twitch.tv/abc/"} :
          /\ ~IdInUse(sid)
          /\ handleLFGCommand(Organizer, "A", "Valorant", players, "null", twitchRaw, sid)
    /\ UNCHANGED rateLimiter
Reboot == Arrives /\ Restart

NextRestart == CreateLinked \/ Resources \/ Record \/ Join \/ Voice \/ Reboot

SpecRestart == Init /\ [][NextRestart]_vars

(***************************************************************************)
(* SpecUptime: the process over days. Sessions are created, users enter    *)
(* and leave the rooms, timers fire, the sweep runs, and the process       *)
(* restarts, also after an outage of SESSION_EXPIRY.                       *)
(***************************************************************************)
AdvanceDays ==
    DOMAIN lfgSessions # {} /\ \E d \in {SWEEP_PERIOD, GRACE, SESSION_EXPIRY} : Tick(d)

NextUptime ==
    \/ CreateFresh \/ Resources \/ Record \/ Voice \/ Timeout
    \/ Teardown \/ Forget \/ Sweep \/ Resume \/ AdvanceDays \/ Reboot

SpecUptime == Init /\ [][NextUptime]_vars

(***************************************************************************)
(* SpecCreate: /lfg with every game, link and user drawn, in a community   *)
(* whose filter /config edits, announced to the community that ran         *)
(* /set_lfg_channel.                                                       *)
(***************************************************************************)
\* the text channel /set_lfg_channel names in community B
AnnounceChan == 1
CreateAny ==
    /\ Quiet /\ Arrives
    /\ \E u \in {Organizer, NUsers}, game \in Games, twitchRaw \in TwitchInputs, sid \in SessionIds :
          /\ ~IdInUse(sid)
          /\ handleLFGCommand(u, "A", game, MaxCap, "null", twitchRaw, sid)
    /\ UNCHANGED rateLimiter
Config ==
    /\ Quiet /\ Arrives
    /\ \E action \in {"add", "remove", "reset"}, game \in Games :
          handleConfigCommand(Organizer, "A", action, game)
    /\ UNCHANGED rateLimiter
Configured == Quiet /\ \E i \in 1..Len(ops) : ConfigCommit(i)
SetChannel ==
    /\ Quiet /\ Arrives
    /\ handleSetLFGChannelCommand(Organizer, "B", AnnounceChan)
    /\ UNCHANGED rateLimiter
ChannelSet == Quiet /\ \E i \in 1..Len(ops) : SetChannelCommit(i)
ResourcesAny ==
    Quiet /\ \E i \in 1..Len(ops), outcome \in {"ok", "failed", "leaked"} : CreateResources(i, outcome)
Fanout ==
    Quiet /\ \E i \in 1..Len(ops), g \in Guilds, delivered \in BOOLEAN : CreateFanout(i, g, delivered)

NextCreate ==
    \/ CreateAny \/ ResourcesAny \/ Fanout \/ Record
    \/ Config \/ Configured \/ SetChannel \/ ChannelSet

SpecCreate == Init /\ [][NextCreate]_vars

(***************************************************************************)
(* SpecFanout: communities register announcement channels and edit their   *)
(* filters, and /lfg in community A is announced to the others; a delivery *)
(* succeeds or fails.                                                      *)
(***************************************************************************)
CreateOwned ==
    /\ Quiet /\ Arrives
    /\ \E game \in Games, sid \in SessionIds :
          /\ ~IdInUse(sid)
          /\ handleLFGCommand(Organizer, "A", game, MaxCap, "null", "null", sid)
    /\ UNCHANGED rateLimiter
ConfigTarget ==
    /\ Quiet /\ Arrives
    /\ \E g \in Guilds \ {"A"}, game \in Games : handleConfigCommand(Organizer, g, "add", game)
    /\ UNCHANGED rateLimiter
SetChannelAny ==
    /\ Quiet /\ Arrives
    /\ \E g \in Guilds : handleSetLFGChannelCommand(Organizer, g, AnnounceChan)
    /\ UNCHANGED rateLimiter

NextFanout ==
    \/ CreateOwned \/ Resources \/ Fanout \/ Record
    \/ ConfigTarget \/ Configured \/ SetChannelAny \/ ChannelSet

SpecFanout == Init /\ [][NextFanout]_vars

(***************************************************************************)
(* SpecKick: every user, organizer or not, runs /kick_member and           *)
(* /ban_member on every user, in the voice room or not.                    *)
(***************************************************************************)
KickAny ==
    /\ Quiet /\ Arrives
    /\ \E u \in Users, sid \in SessionIds, target \in Users, mode \in {"kick", "ban"} :
          handleKickMemberCommand(u, "A", sid, target, mode)
    /\ UNCHANGED rateLimiter

NextKick == CreateFresh \/ Resources \/ Record \/ Join \/ Voice \/ KickAny \/ Disconnect

SpecKick == Init /\ [][NextKick]_vars

(***************************************************************************)
(* SpecDisk: SpecKick on a database whose writes may fail (disk full,      *)
(* database locked): a statement the handler runs itself throws into the   *)
(* catch block of the handler.                                             *)
(***************************************************************************)
\* handleJoinButton when the INSERT after push and setWithTTL throws
JoinWriteFails(u, sid) ==
    /\ Quiet /\ Arrives
    /\ sid \in DOMAIN lfgSessions
    /\ LET joinedUsers == IF sid \in DOMAIN lfgJoinedUsers
                          THEN lfgJoinedUsers[sid].value ELSE <<>>
       IN /\ JoinCheck(joinedUsers, lfgSessions[sid].value.players, u) = "ok"
          /\ lfgJoinedUsers' = setWithTTL(lfgJoinedUsers, sid, Append(joinedUsers, u),
                                          CACHE_TTL)
    /\ lfgSessions[sid].value.chan \in chans
    /\ hist' = [hist EXCEPT !.enrolled[sid] = @ \cup {u}]
    /\ Say(u, "JoinError")
    /\ UNCHANGED <<clockVars, ticks, lfgSessions, sessOrder, webhookChannels, guildGameFilters,
                   lfgStats, rateLimiter, db, timers, worldVars, ops>>

\* the kick or ban handler when the DELETE after the disconnect throws
KickWriteFails(i) ==
    /\ Quiet
    /\ ops[i].kind = "kick" /\ ops[i].pc = "disconnect"
    /\ ops' = RemoveAt(ops, i)
    /\ Say(ops[i].user, "KickError")
    /\ UNCHANGED <<clockVars, budgetVars, memVars, rateLimiter, db, timers, worldVars, hist>>

NextDisk ==
    \/ CreateFresh \/ Resources \/ Record \/ Join \/ Voice \/ KickAny
    \/ \E u \in Users, sid \in SessionIds : JoinWriteFails(u, sid)
    \/ Quiet /\ \E i \in 1..Len(ops) : KickCommit(i, TRUE)
    \/ \E i \in 1..Len(ops) : KickWriteFails(i)

SpecDisk == Init /\ [][NextDisk]_vars

(***************************************************************************)
(* SpecEdit: /modify_lfg with a capacity, a description, both or neither,  *)
(* run in the community of the session or in another one, while other      *)
(* /modify_lfg commands are suspended.                                     *)
(***************************************************************************)
ModifyFrom ==
    /\ Quiet /\ Arrives
    /\ \E g \in {"A", "B"}, sid \in SessionIds, newPlayers \in {0} \cup Caps,
          newDesc \in {"null"} \cup Descriptions :
          handleModifyLFGCommand(Organizer, g, sid, newPlayers, newDesc)
    /\ UNCHANGED rateLimiter

NextEdit == CreateFresh \/ Resources \/ Record \/ ModifyFrom \/ Copy \/ Edit \/ Save

SpecEdit == Init /\ [][NextEdit]_vars

(***************************************************************************)
(* SpecMove: two sessions at a time, whose voice rooms the users enter,    *)
(* leave and move between.                                                 *)
(***************************************************************************)
CreateTwo ==
    /\ Quiet /\ Arrives
    /\ \E sid \in SessionIds \cup {1000 + NIds} :
          /\ ~IdInUse(sid)
          /\ handleLFGCommand(Organizer, "A", "Valorant", MaxCap, "null", "null", sid)
    /\ UNCHANGED rateLimiter

NextMove ==
    \/ CreateTwo \/ Resources \/ Record \/ Voice \/ Timeout
    \/ Teardown \/ Forget \/ Sweep \/ Resume \/ Advance

SpecMove == Init /\ [][NextMove]_vars

(***************************************************************************)
(* SpecReject: every user, with the permission or not, runs /modify_lfg    *)
(* with a field or with none, presses join, and runs /kick_member and      *)
(* /ban_member, on sessions that exist or not.                             *)
(***************************************************************************)
ModifyAny ==
    /\ Quiet /\ Arrives
    /\ \E u \in {Organizer, NUsers}, sid \in SessionIds, newPlayers \in {0} \cup Caps :
          handleModifyLFGCommand(u, "A", sid, newPlayers, "null")
    /\ UNCHANGED rateLimiter

NextReject ==
    \/ CreateFresh \/ Join \/ ModifyAny \/ KickAny \/ Voice \/ Timeout
    \/ Resources \/ Record \/ Copy \/ Edit \/ Save \/ Disconnect
    \/ Teardown \/ Forget \/ Sweep \/ Resume \/ Advance

SpecReject == Init /\ [][NextReject]_vars

(***************************************************************************)
(* SpecWide: SpecFresh with the announcement channel of community B and    *)
(* the filter of community A.                                              *)
(***************************************************************************)
NextWide == NextFresh \/ Fanout \/ SetChannel \/ ChannelSet \/ Config \/ Configured

SpecWide == Init /\ [][NextWide]_vars

(***************************************************************************)
(* Properties.                                                             *)
(***************************************************************************)
Live(sessions, sid) == sid \in DOMAIN sessions
Capacity(sessions, sid) == sessions[sid].value.players
Roster(joined, sid) == IF sid \in DOMAIN joined THEN joined[sid].value ELSE <<>>

\* C1, as stated: in every reachable state the roster of every live session is no
\* larger than the capacity of the session.
C1_RosterWithinCapacity ==
    \A sid \in DOMAIN lfgSessions :
        Len(Roster(lfgJoinedUsers, sid)) <= Capacity(lfgSessions, sid)

\* C1, amended: a step leaves the roster of a live session larger than its capacity
\* only if the roster was already larger, or the step lowered the capacity of that
\* session (a modify); no create, join, kick, ban, timer or cleanup step does.
C1_OnlyLoweringExceeds ==
    [][\A sid \in SessionIds :
          (/\ Live(lfgSessions', sid)
           /\ Len(Roster(lfgJoinedUsers', sid)) > Capacity(lfgSessions', sid))
          => /\ Live(lfgSessions, sid)
             /\ \/ Len(Roster(lfgJoinedUsers, sid)) > Capacity(lfgSessions, sid)
                \/ Capacity(lfgSessions', sid) < Capacity(lfgSessions, sid)]_vars

\* a capacity edit has left the roster exactly at the capacity of a session of two
C1_EditedAtCapacity ==
    \E sid \in DOMAIN lfgSessions :
        /\ reply.msg = "Modified"
        /\ Len(Roster(lfgJoinedUsers, sid)) = Capacity(lfgSessions, sid)
        /\ Len(Roster(lfgJoinedUsers, sid)) >= 2

\* C2: when the join of one actor takes the one free slot of a session, the roster is
\* full, and the join of every other actor who is not on it is answered Full; so of
\* two such joins, in either order, one succeeds.
C2_OneSlotOneJoin ==
    [][\A sid \in SessionIds, u \in Users :
          (/\ handleJoinButton(u, sid)
           /\ Live(lfgSessions, sid)
           /\ Len(Roster(lfgJoinedUsers, sid)) + 1 = Capacity(lfgSessions, sid)
           /\ Roster(lfgJoinedUsers', sid) = Append(Roster(lfgJoinedUsers, sid), u))
          => /\ Len(Roster(lfgJoinedUsers', sid)) <= Capacity(lfgSessions', sid)
             /\ \A v \in Users \ {u} :
                   v \notin Range(Roster(lfgJoinedUsers, sid))
                   => JoinCheck(Roster(lfgJoinedUsers', sid), Capacity(lfgSessions', sid), v)
                        = "Full"]_vars

\* the last slot of a session was just taken, and another actor is still outside
C2_LastSlotTaken ==
    \E sid \in DOMAIN lfgSessions :
        /\ reply.msg = "Joined"
        /\ Len(Roster(lfgJoinedUsers, sid)) = Capacity(lfgSessions, sid)
        /\ Roster(lfgJoinedUsers, sid)[Len(Roster(lfgJoinedUsers, sid))] = reply.to
        /\ \E v \in Users : v \notin Range(Roster(lfgJoinedUsers, sid))

\* C3, as stated: a join by an actor who joined the live session before (and was not
\* kicked or banned since) leaves the rosters as they are and is answered
\* AlreadyJoined.
C3_SecondJoinAlreadyJoined ==
    [][\A sid \in SessionIds, u \in Users :
          (/\ handleJoinButton(u, sid)
           /\ Live(lfgSessions, sid)
           /\ u \in hist.enrolled[sid])
          => /\ reply'.msg = "AlreadyJoined"
             /\ lfgJoinedUsers' = lfgJoinedUsers]_vars

\* C4, as stated: a join is answered Full exactly when the roster size equals the
\* capacity and the actor is not on the roster.
C4_FullIffEqual ==
    [][\A sid \in SessionIds, u \in Users :
          (handleJoinButton(u, sid) /\ Live(lfgSessions, sid))
          => (reply'.msg = "Full"
                <=> /\ u \notin Range(Roster(lfgJoinedUsers, sid))
                    /\ Len(Roster(lfgJoinedUsers, sid)) = Capacity(lfgSessions, sid))]_vars

\* C4, amended: create leaves the roster with the organizer alone; a join is answered
\* Full exactly when the actor is not on the roster and the roster size is at least
\* the capacity, and then the rosters are unchanged; a join that succeeds found the
\* roster below the capacity and appends the actor.
C4_FullIffAtLeast ==
    [][/\ \A i \in 1..Len(ops) :
             CreateRecord(i) => Roster(lfgJoinedUsers', ops[i].sid) = <<ops[i].user>>
       /\ \A sid \in SessionIds, u \in Users :
             (handleJoinButton(u, sid) /\ Live(lfgSessions, sid))
             => /\ reply'.msg = "Full"
                     <=> /\ u \notin Range(Roster(lfgJoinedUsers, sid))
                         /\ Len(Roster(lfgJoinedUsers, sid)) >= Capacity(lfgSessions, sid)
                /\ reply'.msg = "Full" => lfgJoinedUsers' = lfgJoinedUsers
                /\ reply'.msg = "Joined"
                     => /\ Len(Roster(lfgJoinedUsers, sid)) < Capacity(lfgSessions, sid)
                        /\ Roster(lfgJoinedUsers', sid)
                             = Append(Roster(lfgJoinedUsers, sid), u)]_vars

\* a session of the largest capacity drawn is full, organizer first, and the next
\* actor was answered Full
C4_FullAfterJoins ==
    \E sid \in DOMAIN lfgSessions :
        /\ reply.msg = "Full"
        /\ Capacity(lfgSessions, sid) = MaxCap
        /\ Len(Roster(lfgJoinedUsers, sid)) = MaxCap
        /\ Roster(lfgJoinedUsers, sid)[1] = lfgSessions[sid].value.userId
        /\ reply.to \notin Range(Roster(lfgJoinedUsers, sid))

\* C5, as stated: a step that creates no session moves totalPlayers by the sum, over
\* the sessions it leaves live, of capacity after minus capacity before.
RECURSIVE CapacityMoved(_)
CapacityMoved(S) ==
    IF S = {} THEN 0
    ELSE LET sid == CHOOSE x \in S : TRUE
         IN (IF Live(lfgSessions, sid) /\ Live(lfgSessions', sid)
             THEN Capacity(lfgSessions', sid) - Capacity(lfgSessions, sid) ELSE 0)
            + CapacityMoved(S \ {sid})
C5_CounterFollowsCapacity ==
    [][lfgStats'.totalSessions = lfgStats.totalSessions
       => lfgStats'.totalPlayers - lfgStats.totalPlayers = CapacityMoved(SessionIds)]_vars

\* C7, as stated: when a timer callback starts the deletion of a session, the last
\* voice state update on the voice room of that session is at least the grace period old.
C7_GraceSinceOccupancy ==
    [][\A t \in timers :
          (/\ TimerFire(t)
           /\ Live(lfgSessions, t.sid)
           /\ (t.chan \notin chans \/ voice[t.chan] = {}))
          => LET c == lfgSessions[t.sid].value.chan
             IN hist.lastOcc[c] < 0 \/ now - hist.lastOcc[c] >= GRACE]_vars

\* C8, as stated (its second half): the deletion of a session, the teardown of its
\* rooms and the removal from the registry, is carried out at most once.
C8_DeletedOnce ==
    \A c \in ChanIds : hist.removed[c] <= 1


\* the admissions of userId in the window of one interval that ends at time t
AdmittedWithin(userId, t) ==
    Cardinality({i \in 1..Len(hist.admitted[userId]) :
                   hist.admitted[userId][i] <= t /\ t - hist.admitted[userId][i] < interval})

\* C6: an interaction is admitted exactly when fewer than `limit` interactions of the
\* actor were admitted in the interval that ends now, and no interval that ends at an
\* admission holds more than `limit` admissions of one actor.
C6_QuotaPerWindow ==
    [][\A u \in RateUsers :
          /\ (Dispatched(u) /\ handleStatsCommand(u)) => AdmittedWithin(u, now) < limit
          /\ Refused(u) => AdmittedWithin(u, now) >= limit
          /\ \A i \in 1..Len(hist.admitted'[u]) :
                Cardinality({j \in 1..Len(hist.admitted'[u]) :
                               /\ hist.admitted'[u][j] <= hist.admitted'[u][i]
                               /\ hist.admitted'[u][i] - hist.admitted'[u][j] < interval})
                  <= limit]_vars

\* an actor was refused with `limit` admissions in the window, and is admitted again
\* one interval after the first of them
C6_AdmittedAgain ==
    \E u \in RateUsers :
        /\ Len(hist.admitted[u]) = limit + 1
        /\ hist.admitted[u][limit + 1] - hist.admitted[u][1] = interval
        /\ reply = [to |-> u, msg |-> "Stats", list |-> <<>>]


\* null and undefined both stand for no link
SameLink(a, b) == a = b \/ {a, b} \subseteq {"null", "undefined"}
SameSession(a, b) ==
    /\ a.userId = b.userId /\ a.guildId = b.guildId /\ a.game = b.game
    /\ a.players = b.players /\ a.description = b.description /\ a.date = b.date
    /\ a.chan = b.chan /\ SameLink(a.twitchUrl, b.twitchUrl)

\* C9, as stated: a restart leaves the same session ids with the same attributes and
\* capacities, the same rosters, counters, filters and targets, and a timer for every
\* session whose voice room is empty.
C9_RoundTrip ==
    [][Restart =>
         /\ DOMAIN lfgSessions' = DOMAIN lfgSessions
         /\ \A sid \in DOMAIN lfgSessions :
               /\ SameSession(lfgSessions'[sid].value, lfgSessions[sid].value)
               /\ Roster(lfgJoinedUsers', sid) = Roster(lfgJoinedUsers, sid)
               /\ voice[lfgSessions[sid].value.chan] = {}
                    => \E t \in timers' : t.sid = sid /\ t.h = lfgSessions'[sid].value.timeoutId
         /\ lfgStats' = lfgStats
         /\ DOMAIN webhookChannels' = DOMAIN webhookChannels
         /\ \A g \in DOMAIN webhookChannels : webhookChannels'[g].value = webhookChannels[g].value
         /\ DOMAIN guildGameFilters' = DOMAIN guildGameFilters
         /\ \A g \in DOMAIN guildGameFilters :
               guildGameFilters'[g].value = guildGameFilters[g].value]_vars

\* C10: /lfg with a malformed Twitch link, or for a game that the non-empty filter of
\* the community does not list, adds no session and no roster, leaves the counters,
\* the database, the channels, the announcements, the timers and the suspended
\* handlers as they are (the cache of the filter may be filled from the database), and
\* replies: for the game, with the list of the filter.
C10_RejectedBeforeChange ==
    [][\A u \in Users, game \in Games, twitchRaw \in TwitchInputs, sid \in SessionIds :
          LET filter == getGuildGameFilter("A")
              badLink == twitchRaw # "null" /\ ~TwitchMatches(twitchRaw)
              badGame == Len(filter) > 0 /\ game \notin Range(filter)
          IN (handleLFGCommand(u, "A", game, MaxCap, "null", twitchRaw, sid) /\ (badLink \/ badGame))
             => /\ UNCHANGED <<lfgSessions, sessOrder, lfgJoinedUsers, lfgStats, webhookChannels,
                               db, timers, worldVars, ops>>
                /\ guildGameFilters' \in {guildGameFilters, FilterCacheAfter(guildGameFilters, "A")}
                /\ reply'.to = u
                /\ reply'.msg \in {"NoPermission", "TwitchInvalid", "GameNotAllowed"}
                /\ (HasManage(u, "A") /\ badLink) => reply'.msg = "TwitchInvalid"
                /\ (HasManage(u, "A") /\ ~badLink)
                     => reply'.msg = "GameNotAllowed" /\ reply'.list = filter]_vars

\* a community that lists one game refused /lfg for the other with that list, while
\* a session created before is still there
C10_RefusedWithList ==
    /\ reply.msg = "GameNotAllowed"
    /\ Len(reply.list) = 1
    /\ "A" \in DOMAIN db.filters /\ db.filters["A"] = reply.list


\* C11: an announcement of a session is delivered to community b only by the /lfg that
\* creates it, and only if b is not the community of the session, b has an
\* announcement channel registered, and the filter of b is empty or lists the game.
C11_FanoutOnlyEligible ==
    [][\A b \in Guilds, sid \in SessionIds, c \in ChanIds :
          (<<b, sid, c>> \in announced' /\ <<b, sid, c>> \notin announced)
          => \E i \in 1..Len(ops) :
                /\ ops[i].kind = "create" /\ ops[i].sid = sid /\ ops[i].chan = c
                /\ b # ops[i].guild
                /\ b \in DOMAIN webhookChannels
                /\ LET filter == getGuildGameFilter(b)
                   IN Len(filter) = 0 \/ ops[i].game \in Range(filter)]_vars

\* one community got the announcement of a session while the fan-out passed over
\* another registered community whose filter does not list the game
C11_OneServedOneFiltered ==
    \E i \in 1..Len(ops), b \in Guilds, g \in Guilds :
        /\ ops[i].kind = "create" /\ ops[i].pc = "fanout"
        /\ <<b, ops[i].sid, ops[i].chan>> \in announced
        /\ g \in ops[i].done /\ g \in DOMAIN webhookChannels /\ g # ops[i].guild
        /\ Len(getGuildGameFilter(g)) > 0 /\ ops[i].game \notin Range(getGuildGameFilter(g))
        /\ <<g, ops[i].sid, ops[i].chan>> \notin announced

\* C15: a delivery that fails marks its community as passed and nothing else: the
\* command goes on with the same communities left, the maps and the database are as
\* they were; and when the loop is over the session and its roster are recorded in
\* the maps and in the database, whichever deliveries failed.
C15_FailureKeepsGoing ==
    [][\A i \in 1..Len(ops) :
          /\ \A g \in Guilds :
                CreateFanout(i, g, FALSE)
                => /\ Len(ops') = Len(ops)
                   /\ ops'[i] = [ops[i] EXCEPT !.done = @ \cup {g}]
                   /\ UNCHANGED <<lfgSessions, lfgJoinedUsers, lfgStats, db, webhookChannels,
                                  announced, reply>>
          /\ CreateRecord(i)
                => /\ ops[i].sid \in DOMAIN lfgSessions'
                   /\ Roster(lfgJoinedUsers', ops[i].sid) = <<ops[i].user>>
                   /\ ops[i].sid \in DOMAIN db'.sessions
                   /\ db'.users[ops[i].sid] = <<ops[i].user>>]_vars

\* a session is recorded and saved although, of two communities registered and
\* allowing the game, one got the announcement and the other did not
C15_RecordedAfterFailure ==
    \E sid \in DOMAIN lfgSessions, b \in Guilds, g \in Guilds :
        /\ reply.msg = "Created"
        /\ sid \in DOMAIN db.sessions /\ db.users[sid] = <<lfgSessions[sid].value.userId>>
        /\ b # g /\ {b, g} \subseteq DOMAIN webhookChannels
        /\ "A" \notin {b, g}
        /\ isGameAllowedForGuild(b, lfgSessions[sid].value.game)
        /\ isGameAllowedForGuild(g, lfgSessions[sid].value.game)
        /\ <<b, sid, lfgSessions[sid].value.chan>> \in announced
        /\ <<g, sid, lfgSessions[sid].value.chan>> \notin announced


\* C12: /kick_member or /ban_member on a live session by a user who is not its
\* organizer is answered NotOrganizer, and by the organizer on a target who is not in
\* the voice room of the session is answered NotInVoice; either way the rosters, the
\* database, the voice rooms and the suspended handlers are as they were.
C12_RemoveRejected ==
    [][\A u \in Users, sid \in SessionIds, target \in Users, mode \in {"kick", "ban"} :
          (handleKickMemberCommand(u, "A", sid, target, mode) /\ Live(lfgSessions, sid))
          => LET session == lfgSessions[sid].value
                 present == session.chan \in chans /\ target \in voice[session.chan]
             IN /\ u # session.userId
                     => /\ reply' = [to |-> u, msg |-> "NotOrganizer", list |-> <<>>]
                        /\ UNCHANGED <<lfgJoinedUsers, db, voice, ops>>
                /\ (u = session.userId /\ ~present)
                     => /\ reply' = [to |-> u, msg |-> "NotInVoice", list |-> <<>>]
                        /\ UNCHANGED <<lfgJoinedUsers, db, voice, ops>>]_vars

\* the organizer was answered NotInVoice for a member who is on the roster, while
\* another user sits in the voice room
C12_MemberNotInVoice ==
    \E sid \in DOMAIN lfgSessions :
        LET session == lfgSessions[sid].value
        IN /\ reply = [to |-> session.userId, msg |-> "NotInVoice", list |-> <<>>]
           /\ Len(Roster(lfgJoinedUsers, sid)) >= 2
           /\ session.chan \in chans
           /\ \E v \in Users : v \in voice[session.chan]
           /\ \E w \in Range(Roster(lfgJoinedUsers, sid)) :
                 w # session.userId /\ w \notin voice[session.chan]


\* C13, as stated: the id under which /lfg records a session is the id of no live
\* session, so no record, roster or timer of a live session is overwritten.
C13_IdsUniqueWhileLive ==
    [][\A i \in 1..Len(ops) : CreateRecord(i) => ~Live(lfgSessions, ops[i].sid)]_vars

\* the timers pending for session sid
TimersOf(tms, sid) == {t \in tms : t.sid = sid}

\* C14, as stated (its first half): when deleteLFGSession completes, the maps hold no
\* session and no roster under the id, and no timer is pending for it.
C14_DeleteLeavesNothing ==
    [][\A i \in 1..Len(ops) :
          DeleteCommit(i)
          => /\ ~Live(lfgSessions', ops[i].sid)
             /\ ops[i].sid \notin DOMAIN lfgJoinedUsers'
             /\ TimersOf(timers', ops[i].sid) = {}]_vars

\* C16, as stated: no step lowers totalSessions or totalPlayers.
C16_CountersMonotonic ==
    [][/\ lfgStats'.totalSessions >= lfgStats.totalSessions
       /\ lfgStats'.totalPlayers >= lfgStats.totalPlayers]_vars

\* the session object a suspended /modify_lfg holds
HeldSession(op) == IF op.alias THEN lfgSessions[op.sid].value ELSE op.obj

\* C16, amended: no step lowers totalSessions; a step lowers totalPlayers only if it is
\* the capacity edit of a /modify_lfg to fewer players than the session it holds has,
\* and then by exactly that difference.
C16_OnlyLoweringDecreases ==
    [][/\ lfgStats'.totalSessions >= lfgStats.totalSessions
       /\ lfgStats'.totalPlayers < lfgStats.totalPlayers
            => \E i \in 1..Len(ops) :
                  /\ ops[i].kind = "modify" /\ ops[i].players # 0
                  /\ ModifyCopy(i) \/ ModifyEdit(i, TRUE)
                  /\ ops[i].players < HeldSession(ops[i]).players
                  /\ lfgStats.totalPlayers - lfgStats'.totalPlayers
                       = HeldSession(ops[i]).players - ops[i].players]_vars

\* the one session ever created was edited from two players, both on the roster, to
\* one, and totalPlayers went from 2 to 1
C16_LoweredByEdit ==
    \E sid \in DOMAIN lfgSessions :
        /\ lfgStats = [totalSessions |-> 1, totalPlayers |-> 1]
        /\ Capacity(lfgSessions, sid) = 1
        /\ Len(Roster(lfgJoinedUsers, sid)) = 2

\* C17, as stated: the step that records a session of /lfg with c players adds one
\* session to the map, under an id that was not live, with the roster of the creator
\* alone; totalSessions grows by 1 and totalPlayers by c; every other session and
\* roster is as it was.
C17_CreateAddsOne ==
    [][\A i \in 1..Len(ops) :
          CreateRecord(i)
          => LET sid == ops[i].sid
             IN /\ ~Live(lfgSessions, sid)
                /\ DOMAIN lfgSessions' = DOMAIN lfgSessions \cup {sid}
                /\ Capacity(lfgSessions', sid) = ops[i].players
                /\ lfgSessions'[sid].value.userId = ops[i].user
                /\ Roster(lfgJoinedUsers', sid) = <<ops[i].user>>
                /\ lfgStats'.totalSessions = lfgStats.totalSessions + 1
                /\ lfgStats'.totalPlayers = lfgStats.totalPlayers + ops[i].players
                /\ \A other \in DOMAIN lfgSessions \ {sid} :
                      /\ lfgSessions'[other] = lfgSessions[other]
                      /\ Roster(lfgJoinedUsers', other) = Roster(lfgJoinedUsers, other)]_vars

\* C18, as stated: at most one timer is pending for a session id, and the timer pending
\* for a live session is the one its entry names.
C18_OneTimerPerSession ==
    \A sid \in SessionIds :
        /\ Cardinality(TimersOf(timers, sid)) <= 1
        /\ Live(lfgSessions, sid)
             => \A t \in TimersOf(timers, sid) : t.h = lfgSessions[sid].value.timeoutId

\* C19, as stated: after a voice state update that leaves the voice room of a session
\* occupied no timer is pending for the session; only an update that leaves the room
\* empty sets one.
C19_OccupiedDisarms ==
    [][\A u \in Users, to \in ChanIds \cup {NoChan} :
          LET sid == FirstSession(CurrentChannel(u), to)
          IN (VoiceStateUpdate(u, to) /\ sid # 0 /\ voice'[lfgSessions[sid].value.chan] # {})
             => TimersOf(timers', sid) = {}]_vars

\* C20: a timer callback deletes only if the voice room the timer was set for is
\* missing or empty when it runs: a callback that finds that room occupied leaves the
\* sessions, the rosters, the counters, the database, the channels and their members
\* as they are and starts no deletion.
C20_FiresOnlyWhenEmpty ==
    [][\A t \in timers :
          (TimerFire(t) /\ t.chan \in chans /\ voice[t.chan] # {})
          => /\ UNCHANGED <<lfgSessions, sessOrder, lfgJoinedUsers, lfgStats, db, chans, voice,
                            ops, hist>>
             /\ timers' = timers \ {t}]_vars

\* the timer of a live session has run while a user was in its voice room: the session
\* is still there, no timer is pending for it and no handler is suspended
C20_FiredWhileOccupied ==
    \E sid \in DOMAIN lfgSessions :
        /\ now >= lfgSessions[sid].value.date + GRACE
        /\ lfgSessions[sid].value.chan \in chans
        /\ voice[lfgSessions[sid].value.chan] # {}
        /\ lfgSessions[sid].value.timeoutId # 0
        /\ timers = {}
        /\ ops = <<>>

Stale(entry, t0) ==
    \/ entry.expiresAt # 0 /\ t0 > entry.expiresAt
    \/ t0 - entry.value.date > SESSION_EXPIRY
SweptRight(t0) ==
    /\ \A sid \in DOMAIN lfgSessions \ DOMAIN lfgSessions' : Stale(lfgSessions[sid], t0)
    /\ \A j \in 1..Len(ops') :
          ops'[j].kind = "delete" /\ ops'[j].cause = "sweep" =>
             /\ ops'[j].sid \in DOMAIN lfgSessions
             /\ Stale(lfgSessions[ops'[j].sid], t0)
    /\ (\A j \in 1..Len(ops') : ops'[j].kind # "sweep") =>
          \A sid \in DOMAIN lfgSessions' : ~Stale(lfgSessions'[sid], t0)
PutFresh(map, map2, ttl) ==
    \A k \in DOMAIN map2 :
       /\ (k \notin DOMAIN map \/ map2[k] # map[k]) => map2[k].expiresAt = now' + ttl
       /\ k \in DOMAIN map => map2[k].expiresAt >= map[k].expiresAt
C23_PutSetsExpiry ==
    [][/\ PutFresh(lfgSessions, lfgSessions', CACHE_TTL)
       /\ PutFresh(lfgJoinedUsers, lfgJoinedUsers', CACHE_TTL)
       /\ PutFresh(webhookChannels, webhookChannels', WEBHOOK_TTL)
       /\ PutFresh(guildGameFilters, guildGameFilters', FILTER_TTL)]_vars
\* after the clock advanced, a session was put again and a user joined its roster, and
\* the announcement channel of community B was set
C23_PutAgainLater ==
    /\ now > 0
    /\ \E sid \in DOMAIN lfgSessions :
          /\ lfgSessions[sid].value.date < now
          /\ lfgSessions[sid].expiresAt = now + CACHE_TTL
          /\ sid \in DOMAIN lfgJoinedUsers
          /\ Len(lfgJoinedUsers[sid].value) > 1
          /\ lfgJoinedUsers[sid].expiresAt = now + CACHE_TTL
    /\ "B" \in DOMAIN webhookChannels
    /\ webhookChannels["B"].expiresAt = now + WEBHOOK_TTL

\* C24: a session whose expiry has lapsed and that the sweep has not yet removed is not
\* live: a join on it is answered NotFound and changes no roster, and no step puts the
\* lapsed entry again.
C24_LapsedNeverLive ==
    [][\A sid \in DOMAIN lfgSessions :
          (lfgSessions[sid].expiresAt # 0 /\ now > lfgSessions[sid].expiresAt) =>
             /\ \A u \in Users :
                   handleJoinButton(u, sid) =>
                      reply'.msg = "NotFound" /\ lfgJoinedUsers' = lfgJoinedUsers
             /\ sid \in DOMAIN lfgSessions' => lfgSessions'[sid] = lfgSessions[sid]]_vars

\* C25: an interaction refused by the rate limiter records no timestamp (the window
\* keeps exactly the timestamps younger than one interval) and leaves the sessions, the
\* rosters, the counters, the timers and the database unchanged; the window of an
\* actor never holds more than `limit` timestamps.
C25_RefusedLeavesNoTrace ==
    [][\A u \in Users :
          /\ Refused(u) =>
                /\ rateLimiter'[u] = SelectSeq(rateLimiter[u], LAMBDA ts : now - ts < interval)
                /\ UNCHANGED <<lfgSessions, lfgJoinedUsers, lfgStats, timers, db>>
          /\ Len(rateLimiter'[u]) <= limit]_vars
\* a member at the quota is refused on the button of a session with a free slot
C25_RefusedWithFreeSlot ==
    \E u \in Users, sid \in DOMAIN lfgSessions :
       /\ reply = [to |-> u, msg |-> "RateLimited", list |-> <<>>]
       /\ Len(rateLimiter[u]) = limit
       /\ lfgSessions[sid].value.chan \in chans
       /\ sid \in DOMAIN lfgJoinedUsers
       /\ u \notin Range(lfgJoinedUsers[sid].value)
       /\ Len(lfgJoinedUsers[sid].value) < lfgSessions[sid].value.players

\* C26: the two counters change only in the step that records a created session and in
\* the step of /modify_lfg that applies a new capacity: every other step (join, kick,
\* ban, delete, timer, sweep, /set_lfg_channel, /config) leaves them as they were.
C26_CountersOnlyCreateModify ==
    [][lfgStats' # lfgStats =>
          \E i \in 1..Len(ops) :
             \/ CreateRecord(i)
             \/ /\ ops[i].kind = "modify" /\ ops[i].players # 0
                /\ ModifyCopy(i) \/ ModifyEdit(i, TRUE)]_vars
\* the one session created was joined and deleted, the announcement channel of B is
\* set, and the counters still count the session
C26_CountedAfterDelete ==
    /\ lfgStats.totalSessions = 1 /\ lfgStats.totalPlayers > 0
    /\ lfgSessions = EmptyMap
    /\ \E c \in ChanIds : hist.removed[c] = 1
    /\ \E u \in Users : reply = [to |-> u, msg |-> "Joined", list |-> <<>>]
    /\ "B" \in DOMAIN webhookChannels

\* C27: when the organizer removes a member who is on the roster and the disconnect or
\* the ban is rejected, the member still leaves the roster and the organizer is
\* answered that the member was removed.
C27_RejectedStillRemoves ==
    [][\A i \in 1..Len(ops) :
          (KickCommit(i, FALSE) /\ ops[i].target \in Range(Roster(lfgJoinedUsers, ops[i].sid)))
          => /\ ops[i].target \notin Range(Roster(lfgJoinedUsers', ops[i].sid))
             /\ reply'.msg \in {"Kicked", "Banned"}]_vars

\* C28: a join on an unknown id, by a user on the roster or on a full roster, a
\* /modify_lfg without the permission, with no field or on an unknown id, and a
\* /kick_member or /ban_member on an unknown id or by a user who is not the organizer,
\* leave the sessions with their expiries, the rosters with theirs, the counters, the
\* pending timers, the database and the suspended handlers exactly as they were.
RejectedSame == UNCHANGED <<lfgSessions, lfgJoinedUsers, lfgStats, timers, db, ops>>
C28_RejectedChangesNothing ==
    [][\A u \in Users, sid \in SessionIds :
          /\ (/\ handleJoinButton(u, sid)
              /\ \/ ~Live(lfgSessions, sid)
                 \/ u \in Range(Roster(lfgJoinedUsers, sid))
                 \/ Len(Roster(lfgJoinedUsers, sid)) >= Capacity(lfgSessions, sid))
             => /\ reply'.msg \in {"NotFound", "AlreadyJoined", "Full"}
                /\ RejectedSame
          /\ \A newPlayers \in {0} \cup Caps :
                (/\ handleModifyLFGCommand(u, "A", sid, newPlayers, "null")
                 /\ u = NUsers \/ newPlayers = 0 \/ ~Live(lfgSessions, sid))
                => /\ reply'.msg \in {"NoPermission", "NoField", "NotFound"}
                   /\ RejectedSame
          /\ \A target \in Users, mode \in {"kick", "ban"} :
                (/\ handleKickMemberCommand(u, "A", sid, target, mode)
                 /\ ~Live(lfgSessions, sid) \/ u # lfgSessions[sid].value.userId)
                => /\ reply'.msg \in {"NotFound", "NotOrganizer"}
                   /\ RejectedSame]_vars
\* after the clock advanced, a member was answered Full on a session whose roster is at
\* its capacity, with a timer pending
C28_FullAfterRefusals ==
    \E sid \in DOMAIN lfgSessions, u \in Users :
       /\ now > 0
       /\ reply = [to |-> u, msg |-> "Full", list |-> <<>>]
       /\ u \notin Range(Roster(lfgJoinedUsers, sid))
       /\ Len(Roster(lfgJoinedUsers, sid)) = Capacity(lfgSessions, sid)
       /\ \E t \in timers : t.sid = sid

\* C29: whenever no handler is suspended and no roster is without its session (the
\* one case in which the transaction of saveData fails), the database holds exactly
\* the sessions, the rosters, the counters and the announcement channels of the maps,
\* and every cached filter is the filter of the database.
C29_DurableEqualsMemory ==
    (ops = <<>> /\ DOMAIN lfgJoinedUsers \subseteq DOMAIN lfgSessions) =>
       /\ DOMAIN db.sessions = DOMAIN lfgSessions
       /\ \A k \in DOMAIN lfgSessions :
             /\ db.sessions[k] = SessionRow(lfgSessions[k].value)
             /\ db.users[k] = Roster(lfgJoinedUsers, k)
       /\ db.stats = lfgStats
       /\ DOMAIN db.webhooks = DOMAIN webhookChannels
       /\ \A g \in DOMAIN webhookChannels : db.webhooks[g] = webhookChannels[g].value
       /\ \A g \in DOMAIN guildGameFilters : FilterRow(g) = guildGameFilters[g].value

\* C30: when a write to the database fails during a join, a kick or a ban, the roster
\* is changed in memory all the same (the member is on it after the join, off it after
\* the kick or ban) and the caller is answered as after a success.
C30_WriteFailureSilent ==
    [][/\ \A u \in Users, sid \in SessionIds :
             JoinWriteFails(u, sid) =>
                /\ u \in Range(Roster(lfgJoinedUsers', sid))
                /\ reply'.msg = "Joined"
       /\ \A i \in 1..Len(ops) :
             KickWriteFails(i) =>
                /\ ops[i].target \notin Range(Roster(lfgJoinedUsers', ops[i].sid))
                /\ reply'.msg \in {"Kicked", "Banned"}]_vars

\* C31: a join on a session whose deletion has started (deleteLFGSession is suspended
\* on it) is not answered Joined and adds no member to its roster.
C31_NoJoinDuringDeletion ==
    [][\A u \in Users, sid \in SessionIds :
          (/\ handleJoinButton(u, sid)
           /\ \E j \in 1..Len(ops) : ops[j].kind = "delete" /\ ops[j].sid = sid)
          => reply'.msg # "Joined" /\ lfgJoinedUsers' = lfgJoinedUsers]_vars

\* C32: a join answered Joined, and a kick or ban that removed a member, on a session
\* of community A while another community has an announcement channel whose filter
\* admits the game, is followed by a delivery: the step announces to that community or
\* leaves a handler suspended on the delivery.
EligibleTargets(sid) ==
    {g \in DOMAIN webhookChannels :
        /\ g # lfgSessions[sid].value.guildId
        /\ LET f == IF g \in DOMAIN guildGameFilters THEN guildGameFilters[g].value
                    ELSE IF g \in DOMAIN db.filters THEN db.filters[g] ELSE <<>>
           IN f = <<>> \/ lfgSessions[sid].value.game \in Range(f)}
C32_RosterChangeAnnounced ==
    [][/\ \A u \in Users, sid \in DOMAIN lfgSessions :
             (handleJoinButton(u, sid) /\ reply'.msg = "Joined" /\ EligibleTargets(sid) # {})
             => announced' # announced \/ Len(ops') > Len(ops)
       /\ \A i \in 1..Len(ops) :
             (/\ KickCommit(i, TRUE)
              /\ ops[i].sid \in DOMAIN lfgSessions
              /\ EligibleTargets(ops[i].sid) # {})
             => announced' # announced \/ Len(ops') >= Len(ops)]_vars

\* C33: an announcement channel that is registered stays registered, and its value
\* changes only in the step of /set_lfg_channel that puts it.
C33_TargetStaysRegistered ==
    [][\A g \in DOMAIN webhookChannels :
          /\ g \in DOMAIN webhookChannels'
          /\ webhookChannels'[g].value # webhookChannels[g].value =>
                \E i \in 1..Len(ops) : SetChannelCommit(i) /\ ops[i].guild = g]_vars

\* C34: when /lfg fails after channels were created, the channels stay and the session
\* is in the registry afterwards.
C34_FailedCreateRecorded ==
    [][\A i \in 1..Len(ops) :
          CreateResources(i, "leaked") =>
             /\ orphans' # orphans
             /\ ops[i].sid \in DOMAIN lfgSessions']_vars

\* C35: every session of the registry has its roster entry, and the roster holds every
\* member who joined and was not kicked or banned since.
C35_RosterLivesWithSession ==
    \A sid \in DOMAIN lfgSessions :
       /\ sid \in DOMAIN lfgJoinedUsers
       /\ hist.enrolled[sid] \subseteq Range(lfgJoinedUsers[sid].value)

\* C36: a session id that is not in the registry enters it only in the step that
\* records a created session.
C36_AbsentUntilCreated ==
    [][\A sid \in SessionIds :
          (sid \notin DOMAIN lfgSessions /\ sid \in DOMAIN lfgSessions')
          => \E i \in 1..Len(ops) : ops[i].kind = "create" /\ CreateRecord(i)]_vars

\* C37: no /modify_lfg loses the update of another: the step in which a /modify_lfg
\* writes the session changes only the fields the command names, so that a capacity
\* and a description set by two overlapping commands are both in the session.
C37_NoLostUpdate ==
    [][\A i \in 1..Len(ops) :
          (/\ ops[i].kind = "modify"
           /\ ModifyCopy(i) \/ ModifyEdit(i, TRUE)
           /\ ops[i].sid \in DOMAIN lfgSessions
           /\ ops[i].sid \in DOMAIN lfgSessions')
          => LET old == lfgSessions[ops[i].sid].value
                 new == lfgSessions'[ops[i].sid].value
             IN /\ ops[i].players = 0 => new.players = old.players
                /\ ops[i].desc = "null" => new.description = old.description]_vars

\* C38: a /modify_lfg run in a community that is not the community of the session
\* changes neither the capacity, nor the description, nor the counters.
C38_ForeignModifyChangesNothing ==
    [][\A i \in 1..Len(ops) :
          (/\ ops[i].kind = "modify"
           /\ ModifyCopy(i) \/ ModifyEdit(i, TRUE)
           /\ ops[i].sid \in DOMAIN lfgSessions
           /\ ops[i].guild # lfgSessions[ops[i].sid].value.guildId)
          => /\ ops[i].sid \in DOMAIN lfgSessions'
             /\ lfgSessions'[ops[i].sid].value = lfgSessions[ops[i].sid].value
             /\ lfgStats' = lfgStats]_vars

\* C39: the filter a community is served with (the cached filter, or the row of the
\* database when none is cached) changes only in the step of /config add, remove or
\* reset of that community: neither the eviction of the cached filter by the sweep nor
\* the reload that follows changes it.
Effective(filters, d, g) ==
    IF g \in DOMAIN filters THEN filters[g].value
    ELSE IF g \in DOMAIN d.filters THEN d.filters[g] ELSE <<>>
C39_FilterChangesOnlyByConfig ==
    [][\A g \in Guilds :
          Effective(guildGameFilters', db', g) # Effective(guildGameFilters, db, g) =>
             \E i \in 1..Len(ops) :
                /\ ops[i].kind = "config" /\ ops[i].guild = g
                /\ ops[i].mode \in {"add", "remove", "reset"}
                /\ ConfigCommit(i)]_vars
\* the sweep evicted the cached filter of a community whose filter names a game
C39_EvictedFilter ==
    \E g \in Guilds :
       /\ g \notin DOMAIN guildGameFilters
       /\ g \in DOMAIN db.filters
       /\ db.filters[g] # <<>>
       /\ now > FILTER_TTL

\* C40: after a voice state update, every session whose voice room the update emptied
\* has a timer pending GRACE from now, also when the user moved into the room of
\* another session.
C40_MoveArmsEmptied ==
    [][\A u \in Users, to \in ChanIds \cup {NoChan} :
          VoiceStateUpdate(u, to) =>
             \A sid \in DOMAIN lfgSessions' :
                LET c == lfgSessions'[sid].value.chan
                IN (c \in chans /\ voice[c] # {} /\ voice'[c] = {}) =>
                      \E t \in timers' : t.sid = sid /\ t.deadline = now + GRACE]_vars

====
